---------------------------- MODULE Spec2Model ----------------------------
(***************************************************************************)
(* EEG signal-conditioning pipeline (workflow/scripts): the ingestion,     *)
(* bandpass, truncation, ICA, re-referencing and feature extraction stages *)
(* as state machines.  Each stage is a `main` that validates its           *)
(* arguments, reads one artifact, transforms it and writes a new artifact; *)
(* the program counter `pc` walks through the statements of that `main`,   *)
(* and `Exit` is the command-line wrapper that turns its outcome into an   *)
(* exit status.                                                            *)
(***************************************************************************)
EXTENDS Integers, Sequences, FiniteSets, TLC

VARIABLES
    stage,          \* which stage's main is running
    args,           \* the arguments main was called with
    fs,             \* the file system: input artifact, directories, outputs
    pc,             \* position inside main
    status,         \* "running", "ok", or the exception main raised
    df,             \* the DataFrame read from the input file
    target_length,  \* truncate_signal.py:93 / ica.py:142
    sfreq,          \* ica.py:139, the fraction size / 2 as [num, den]
    events,         \* ica.py:140
    channels,       \* ica.py:141
    epoch_data,     \* ica.py:144-162, per event the list of channel signals
    event_codes,    \* ica.py:145,163
    epochs_data,    \* ica.py:165-166, the 3-D array
    event_ids,      \* ica.py:179-181
    events_array,   \* ica.py:182-187
    ica,            \* the mne ICA object: fitted, n_components_, exclude
    identified_artifacts, \* ica.py:212
    prompted,       \* the prompts issued so far and the responses typed
    epochs_clean,   \* ica.py:226-227
    epochs,         \* denoising.py:83, the Epochs object being re-referenced
    features,       \* feature_extraction.py:211, the feature mapping
    exit_code       \* the exit status of the CLI process, <<>> while it runs

vars == <<stage, args, fs, pc, status, df, target_length, sfreq, events,
          channels, epoch_data, event_codes, epochs_data, event_ids,
          events_array, ica, identified_artifacts, prompted, epochs_clean,
          epochs, features, exit_code>>

icaLocals == <<sfreq, events, channels, epoch_data, event_codes, epochs_data,
               event_ids, events_array, ica, identified_artifacts, prompted,
               epochs_clean>>

cli == <<features, exit_code>>

(***************************************************************************)
(* Bounds of the model.                                                    *)
(***************************************************************************)
MaxRows == 3        \* rows of a Signal Table
MaxLen == 3         \* longest signal / largest size field

(***************************************************************************)
(* Values that stand for "nothing there".                                  *)
(***************************************************************************)
Absent == [exists |-> FALSE, content |-> <<>>]  \* a path with no file
File(content) == [exists |-> TRUE, content |-> content]

(***************************************************************************)
(* Plain helpers.                                                          *)
(***************************************************************************)
RECURSIVE SeqMin(_)
SeqMin(s) ==
    IF Len(s) = 1 THEN s[1]
    ELSE LET m == SeqMin(Tail(s)) IN IF s[1] <= m THEN s[1] ELSE m

Range(s) == {s[i] : i \in 1..Len(s)}

\* Python's seq[:n] for n >= 0
Prefix(s, n) == SubSeq(s, 1, IF n < Len(s) THEN n ELSE Len(s))

Zeros(n) == [i \in 1..n |-> 0]

\* pandas' Series.unique(): the distinct values in order of first appearance
RECURSIVE Unique(_)
Unique(s) ==
    IF s = <<>> THEN <<>>
    ELSE LET init == Unique(SubSeq(s, 1, Len(s) - 1))
             last == s[Len(s)]
         IN IF last \in Range(init) THEN init ELSE Append(init, last)

FirstIndex(s, x) == CHOOSE i \in 1..Len(s) :
                        s[i] = x /\ \A j \in 1..(i - 1) : s[j] # x

Column(table, name) == [i \in 1..Len(table) |-> table[i][name]]

(***************************************************************************)
(* Signal Tables.  A sample is identified by the row it came from and its  *)
(* position, so that a reordering or a shift of samples is visible.        *)
(***************************************************************************)
Sample(row, k) == 10 * row + k

Signal(row, n) == [k \in 1..n |-> Sample(row, k)]

ChannelNames == <<"O1", "O2">>

\* Tables read by the truncation stage: size and the signal's actual length
\* are independent (load_data.py takes both from the file as they are); a
\* signal has as many samples as size says, one fewer, or one more.
RawRow(i, size, len) ==
    [id |-> i, event |-> (i + 1) \div 2, channel |-> ChannelNames[2 - (i % 2)],
     code |-> 5, size |-> size, signal |-> Signal(i, len)]

RawShapes ==
    {p \in (0..MaxLen) \X (0..MaxLen) :
        p[2] \in {p[1] - 1, p[1], p[1] + 1}}

RawTable(n, p) == [i \in 1..n |-> RawRow(i, p[i][1], p[i][2])]

\* The table of tests/test_truncate_signal.py:88-95
ScenarioTable ==
    << [id |-> 1, event |-> 1, channel |-> "O1", code |-> 5, size |-> 5,
        signal |-> <<1, 2, 3, 4, 5>>],
       [id |-> 2, event |-> 1, channel |-> "O2", code |-> 5, size |-> 3,
        signal |-> <<6, 7, 8>>],
       [id |-> 3, event |-> 2, channel |-> "O1", code |-> 5, size |-> 4,
        signal |-> <<9, 10, 11, 12>>] >>

(***************************************************************************)
(* Arguments and file system common to the stages.                         *)
(***************************************************************************)
\* An argument is given by its Python type; the artifacts string also by its
\* characters, the inspection flag also by its value.
NoArtifacts == [type |-> "NoneType", text |-> <<>>]
Artifacts(text) == [type |-> "str", text |-> text]

\* outpath is the file the outfile argument names: a path of its own
\* ("outfile"), or the very path of the input file ("infile").
GoodArgs == [infile |-> "str", outfile |-> "str", plotfile |-> "str",
             artifacts |-> NoArtifacts, inspectionType |-> "bool",
             inspection |-> FALSE, outpath |-> "outfile"]

\* config is the path config/artifacts.txt
FileSystem(content) ==
    [infile |-> content, outdir |-> TRUE, plotdir |-> TRUE,
     outfile |-> Absent, plotfile |-> Absent, config |-> Absent]

Fail(exc) == /\ status' = exc
             /\ pc' = "done"

(***************************************************************************)
(* The command-line entry point of a stage: the try/except around main.    *)
(***************************************************************************)
Stages == {"load", "bandpass", "truncate", "ica", "denoise", "features"}

\* the exception classes of the first except clause, per script
Recognized(s) ==
    IF s = "denoise" THEN {"TypeError", "FileNotFoundError"}
    ELSE {"TypeError", "ValueError", "FileNotFoundError"}

\* exit(1) in the first except clause, exit(99) in the second, and the
\* interpreter's exit status 0 when main returns
ExitCode(s, outcome) ==
    IF outcome = "ok" THEN 0
    ELSE IF outcome \in Recognized(s) THEN 1
    ELSE 99

Exit ==
    /\ pc = "done" /\ exit_code = <<>>
    /\ exit_code' = <<ExitCode(stage, status)>>
    /\ UNCHANGED <<features, stage, args, fs, pc, status, df, target_length,
                   icaLocals, epochs>>

(***************************************************************************)
(* Truncation stage: workflow/scripts/truncate_signal.py, main.            *)
(***************************************************************************)
NoIca == [fits |-> 0, n_components |-> 0, exclude |-> <<>>, applied |-> 0]
NoEpochs == [data |-> <<>>, denom |-> 1, ch_names |-> <<>>, projs |-> <<>>]

InitLocals ==
    /\ df = <<>>
    /\ target_length = 0
    /\ sfreq = [num |-> 0, den |-> 1]
    /\ events = <<>>
    /\ channels = <<>>
    /\ epoch_data = <<>>
    /\ event_codes = <<>>
    /\ epochs_data = <<>>
    /\ event_ids = <<>>
    /\ events_array = <<>>
    /\ ica = NoIca
    /\ identified_artifacts = <<>>
    /\ prompted = <<>>
    /\ epochs_clean = [source |-> <<>>, removed |-> <<>>]
    /\ epochs = NoEpochs
    /\ features = <<>>
    /\ exit_code = <<>>

InitTruncate ==
    /\ stage = "truncate"
    /\ pc = "validate"
    /\ status = "running"
    /\ \/ /\ args = GoodArgs
          /\ \/ \E n \in 0..MaxRows : \E p \in [1..n -> RawShapes] :
                   fs = FileSystem(File(RawTable(n, p)))
             \/ fs = FileSystem(File(ScenarioTable))
       \/ /\ args \in {[GoodArgs EXCEPT !.infile = a, !.outfile = b] :
                          a \in {"str", "int"}, b \in {"str", "int"}}
          /\ \E c \in {Absent, File(ScenarioTable)}, d \in BOOLEAN :
                fs = [FileSystem(c) EXCEPT !.outdir = d]
    /\ InitLocals

\* truncate_signal.py:65-86
TruncateValidate ==
    /\ stage = "truncate" /\ pc = "validate"
    /\ IF args.infile # "str" \/ args.outfile # "str" THEN Fail("TypeError")
       ELSE IF ~fs.infile.exists THEN Fail("FileNotFoundError")
       ELSE IF ~fs.outdir THEN Fail("ValueError")
       ELSE pc' = "read" /\ UNCHANGED status
    /\ UNCHANGED <<cli, stage, args, fs, df, target_length, icaLocals, epochs>>

\* truncate_signal.py:90
TruncateRead ==
    /\ stage = "truncate" /\ pc = "read"
    /\ df' = fs.infile.content
    /\ pc' = "truncate"
    /\ UNCHANGED <<cli, stage, args, fs, status, target_length, icaLocals,
                   epochs>>

\* the last n samples instead of the first n
TruncateSignalSuffix(signal, n) ==
    SubSeq(signal, IF n < Len(signal) THEN Len(signal) - n + 1 ELSE 1,
           Len(signal))

\* truncate_signal.py:96-98, the lambda applied to one signal
TruncateSignal(signal, n) == Prefix(signal, n)

\* one less than the target written to the size column
NewSizeOneLess(row, n) == n - 1

\* truncate_signal.py:102
NewSize(row, n) == n

\* truncate_signal.py:93-102; min() of an empty column raises ValueError
TruncateApply ==
    /\ stage = "truncate" /\ pc = "truncate"
    /\ IF Len(df) = 0
       THEN /\ Fail("ValueError")
            /\ UNCHANGED <<df, target_length>>
       ELSE LET n == SeqMin(Column(df, "size")) IN
            /\ target_length' = n
            /\ df' = [i \in 1..Len(df) |->
                        [df[i] EXCEPT
                            !.signal = TruncateSignal(df[i].signal, n),
                            !.size = NewSize(df[i], n)]]
            /\ pc' = "write"
            /\ UNCHANGED status
    /\ UNCHANGED <<cli, stage, args, fs, icaLocals, epochs>>

\* truncate_signal.py:104-106
TruncateWrite ==
    /\ stage = "truncate" /\ pc = "write"
    /\ fs' = [fs EXCEPT ![args.outpath] = File(df)]
    /\ status' = "ok"
    /\ pc' = "done"
    /\ UNCHANGED <<cli, stage, args, df, target_length, icaLocals, epochs>>

NextTruncate ==
    \/ TruncateValidate
    \/ TruncateRead
    \/ TruncateApply
    \/ TruncateWrite

SpecTruncate == InitTruncate /\ [][NextTruncate]_vars

(***************************************************************************)
(* The truncation stage run on a table that an earlier run of the stage    *)
(* wrote.                                                                  *)
(***************************************************************************)
\* truncate_signal.py:93-104: the table a run writes for a non-empty table
TruncatedTable(table) ==
    LET n == SeqMin(Column(table, "size"))
    IN [i \in 1..Len(table) |->
          [table[i] EXCEPT !.signal = TruncateSignal(table[i].signal, n),
                           !.size = NewSize(table[i], n)]]

InitRetruncate ==
    /\ stage = "truncate"
    /\ pc = "validate"
    /\ status = "running"
    /\ args = GoodArgs
    /\ \/ \E n \in 1..MaxRows : \E p \in [1..n -> RawShapes] :
             fs = FileSystem(File(TruncatedTable(RawTable(n, p))))
       \/ fs = FileSystem(File(TruncatedTable(ScenarioTable)))
    /\ InitLocals

SpecRetruncate == InitRetruncate /\ [][NextTruncate]_vars

(***************************************************************************)
(* Python string operations used by ica.py, on strings given as sequences  *)
(* of one-character strings.                                               *)
(***************************************************************************)
DecimalChars == {"0", "1", "2", "3"}     \* Unicode category Nd
SuperscriptChars == {"^2"}   \* "^2" is U+00B2: a digit, not a decimal
WhitespaceChars == {" ", "\n"}

\* str.isdigit(): non-empty, every character has the Unicode digit property
IsDigit(tok) ==
    /\ Len(tok) > 0
    /\ \A k \in 1..Len(tok) : tok[k] \in DecimalChars \cup SuperscriptChars

\* str.split(","): the pieces between the commas, empty pieces kept
RECURSIVE Split(_)
Split(text) ==
    IF \A k \in 1..Len(text) : text[k] # ","
    THEN <<text>>
    ELSE LET k == CHOOSE j \in 1..Len(text) :
                     /\ text[j] = ","
                     /\ \A m \in 1..(j - 1) : text[m] # ","
         IN <<SubSeq(text, 1, k - 1)>> \o Split(SubSeq(text, k + 1, Len(text)))

RECURSIVE Strip(_)
Strip(tok) ==
    IF tok = <<>> THEN tok
    ELSE IF tok[1] \in WhitespaceChars THEN Strip(Tail(tok))
    ELSE IF tok[Len(tok)] \in WhitespaceChars
         THEN Strip(SubSeq(tok, 1, Len(tok) - 1))
    ELSE tok

DigitValue(c) ==
    CASE c = "0" -> 0 [] c = "1" -> 1 [] c = "2" -> 2 [] c = "3" -> 3

RECURSIVE DecimalValue(_)
DecimalValue(digits) ==
    IF digits = <<>> THEN 0
    ELSE 10 * DecimalValue(SubSeq(digits, 1, Len(digits) - 1))
         + DigitValue(digits[Len(digits)])

\* int(tok): surrounding whitespace dropped, an optional sign, then decimal
\* characters only; anything else raises ValueError
ParseInt(tok) ==
    LET body == Strip(tok)
        signed == body # <<>> /\ body[1] \in {"-", "+"}
        digits == IF signed THEN Tail(body) ELSE body
    IN IF digits # <<>> /\ \A k \in 1..Len(digits) : digits[k] \in DecimalChars
       THEN [ok |-> TRUE,
             value |-> IF signed /\ body[1] = "-" THEN 0 - DecimalValue(digits)
                       ELSE DecimalValue(digits)]
       ELSE [ok |-> FALSE, value |-> 0]

\* str.lower() on the characters the prompt can receive
LowerChar(c) == IF c = "Y" THEN "y" ELSE IF c = "N" THEN "n" ELSE c
Lower(text) == [k \in 1..Len(text) |-> LowerChar(text[k])]

\* ica.py:106-108
ArtifactsValid(text) ==
    \A k \in 1..Len(Split(text)) : IsDigit(Split(text)[k])

\* ica.py:221
ParseArtifacts(text) ==
    [k \in 1..Len(Split(text)) |-> ParseInt(Split(text)[k])]

(***************************************************************************)
(* Inputs of the ICA stage.                                                *)
(***************************************************************************)
EventIds == {1, 2}
Codes == {5, 7}

\* Tables the truncation stage can have written: every size equals the
\* common target T (truncate_signal.py:102), every signal has at most T
\* samples (truncate_signal.py:97).  The rows in `short` have one sample
\* fewer than T: no row, one row, or every row.  T is 0 when the shortest
\* size of the raw table was 0.
IcaRow(i, T, c, short) ==
    [id |-> i, event |-> c.event, channel |-> c.channel, code |-> c.code,
     size |-> T, signal |-> Signal(i, IF i \in short THEN T - 1 ELSE T)]

RowChoices == [event : EventIds, channel : Range(ChannelNames), code : Codes]

TargetLengths == 1..MaxLen

ShortRows(n) == {{}, 1..n} \cup {{k} : k \in 1..n}

IcaTable(n, T, c, short) == [i \in 1..n |-> IcaRow(i, T, c[i], short)]

FullRow(i, ev, ch, code) ==
    [id |-> i, event |-> ev, channel |-> ch, code |-> code, size |-> 2,
     signal |-> Signal(i, 2)]

\* two events, two channels, every (event, channel) row present
FullTable ==
    << FullRow(1, 1, "O1", 5), FullRow(2, 1, "O2", 5),
       FullRow(3, 2, "O1", 7), FullRow(4, 2, "O2", 7) >>

ArtifactTexts ==
    { <<"1", ",", "2", ",", "3", "\n">>,
      <<"1", ",", "2", ",", "3">>,
      <<"0">>,
      <<"1", "0">>,
      <<"1", ",", "x">>,
      <<"1", ",", ",", "2">>,
      <<>>,
      <<"-", "1">>,
      <<" ", "1">>,
      <<"^2">>,
      <<"0", ",", "^2">> }

Responses ==
    { <<"y">>, <<"Y">>, <<"n">>, <<>>, <<"y", "e", "s">> }

InitIca ==
    /\ stage = "ica"
    /\ pc = "validate"
    /\ status = "running"
    /\ \/ /\ args = GoodArgs
          /\ \E n \in 1..MaxRows, T \in {0} \cup TargetLengths :
                \E c \in [1..n -> RowChoices], short \in ShortRows(n) :
                    fs = FileSystem(File(IcaTable(n, T, c, short)))
       \/ /\ \E a \in {NoArtifacts} \cup {Artifacts(x) : x \in ArtifactTexts},
                ins \in BOOLEAN :
                args = [GoodArgs EXCEPT !.artifacts = a, !.inspection = ins]
          /\ fs = FileSystem(File(FullTable))
    /\ InitLocals

(***************************************************************************)
(* ICA stage: workflow/scripts/ica.py, main.                               *)
(***************************************************************************)
\* ica.py:85-132
IcaValidate ==
    /\ stage = "ica" /\ pc = "validate"
    /\ IF args.infile # "str" \/ args.outfile # "str" \/ args.plotfile # "str"
       THEN Fail("TypeError")
       ELSE IF args.artifacts.type \notin {"NoneType", "str"}
       THEN Fail("TypeError")
       ELSE IF args.artifacts.type = "str"
               /\ ~ArtifactsValid(args.artifacts.text)
       THEN Fail("ValueError")
       ELSE IF args.inspectionType # "bool" THEN Fail("TypeError")
       ELSE IF ~fs.infile.exists THEN Fail("FileNotFoundError")
       ELSE IF ~fs.outdir \/ ~fs.plotdir THEN Fail("ValueError")
       ELSE pc' = "read" /\ UNCHANGED status
    /\ UNCHANGED <<cli, stage, args, fs, df, target_length, icaLocals, epochs>>

\* ica.py:136
IcaRead ==
    /\ stage = "ica" /\ pc = "read"
    /\ df' = fs.infile.content
    /\ pc' = "assemble"
    /\ UNCHANGED <<cli, stage, args, fs, status, target_length, icaLocals,
                   epochs>>

\* ica.py:149-161: the signal of the first row of (event, channel), or zeros
RowsOf(table, event, channel) ==
    {i \in 1..Len(table) :
        table[i].event = event /\ table[i].channel = channel}

\* the missing channel left empty instead of padded
MissingSignalEmpty(n) == <<>>

\* ica.py:158-160
MissingSignal(n) == Zeros(n)

\* the signal of the last row of (event, channel) instead of the first
ChannelSignalLast(table, event, channel, n) ==
    LET rows == RowsOf(table, event, channel)
    IN IF rows # {}
       THEN table[CHOOSE i \in rows : \A j \in rows : i >= j].signal
       ELSE MissingSignal(n)

\* ica.py:152-161
ChannelSignal(table, event, channel, n) ==
    LET rows == RowsOf(table, event, channel)
    IN IF rows # {}
       THEN table[CHOOSE i \in rows : \A j \in rows : i <= j].signal
       ELSE MissingSignal(n)

\* numpy.unique() instead of Series.unique(): the distinct values sorted
RECURSIVE Sorted(_)
Sorted(S) ==
    IF S = {} THEN <<>>
    ELSE LET m == CHOOSE x \in S : \A y \in S :
                     x = y \/ FirstIndex(ChannelNames, x)
                                < FirstIndex(ChannelNames, y)
         IN <<m>> \o Sorted(S \ {m})

ChannelsSorted(table) == Sorted(Range(Column(table, "channel")))

\* ica.py:140-141
EventsOf(table) == Unique(Column(table, "event"))
ChannelsOf(table) == Unique(Column(table, "channel"))

\* ica.py:148-162: per event, one signal per channel in channel order
AssembleEpochs(table, n) ==
    [e \in 1..Len(EventsOf(table)) |->
        [c \in 1..Len(ChannelsOf(table)) |->
            ChannelSignal(table, EventsOf(table)[e], ChannelsOf(table)[c], n)]]

\* ica.py:163: the code of the first row of the event
EventCode(table, event) ==
    table[CHOOSE i \in 1..Len(table) :
            /\ table[i].event = event
            /\ \A j \in 1..(i - 1) : table[j].event # event].code

\* ica.py:165-166: numpy builds the 3-D array only from rows of one length
Homogeneous(data) ==
    \A e1, e2 \in 1..Len(data) :
        \A c1 \in 1..Len(data[e1]), c2 \in 1..Len(data[e2]) :
            Len(data[e1][c1]) = Len(data[e2][c2])

\* ica.py:179-181: a dict comprehension, a later index overwrites an earlier
EventIdMap(codes) ==
    [c \in Range(codes) |->
        (CHOOSE i \in 1..Len(codes) :
            /\ codes[i] = c
            /\ \A j \in (i + 1)..Len(codes) : codes[j] # c) - 1]

\* the onsets one sample too close to each other
EventOnsetOverlapping(idx, n) == idx * (n - 1)

\* ica.py:184: the onset of the event at position idx = 0, 1, ...
EventOnset(idx, n) == idx * n

\* ica.py:139-195; mne.create_info (ica.py:169) raises ValueError unless
\* the sampling rate is positive, after the 3-D array was built
IcaAssemble ==
    /\ stage = "ica" /\ pc = "assemble"
    /\ LET rate == [num |-> df[1].size, den |-> 2]
           n == (2 * rate.num) \div rate.den
           evs == EventsOf(df)
           chs == ChannelsOf(df)
           data == AssembleEpochs(df, n)
           codes == [e \in 1..Len(evs) |-> EventCode(df, evs[e])]
           ids == EventIdMap(codes)
       IN /\ sfreq' = rate
          /\ target_length' = n
          /\ events' = evs
          /\ channels' = chs
          /\ epoch_data' = data
          /\ event_codes' = codes
          /\ IF ~Homogeneous(data)
             THEN /\ Fail("ValueError")
                  /\ UNCHANGED <<epochs_data, event_ids, events_array>>
             ELSE IF rate.num <= 0
             THEN /\ epochs_data' = data
                  /\ Fail("ValueError")
                  /\ UNCHANGED <<event_ids, events_array>>
             ELSE /\ epochs_data' = data
                  /\ event_ids' = ids
                  /\ events_array' =
                        [e \in 1..Len(evs) |->
                            <<EventOnset(e - 1, n), 0, ids[codes[e]]>>]
                  /\ pc' = "fit"
                  /\ UNCHANGED status
    /\ UNCHANGED <<cli, stage, args, fs, df, ica, identified_artifacts,
                   prompted, epochs_clean, epochs>>

MaxComponents == 20

Min2(a, b) == IF a <= b THEN a ELSE b

\* ica.py:197-200
IcaFit ==
    /\ stage = "ica" /\ pc = "fit"
    /\ ica' = [fits |-> ica.fits + 1,
               n_components |-> Min2(Len(channels), MaxComponents),
               exclude |-> <<>>, applied |-> 0]
    /\ pc' = "plot"
    /\ UNCHANGED <<cli, stage, args, fs, status, df, target_length, sfreq,
                   events, channels, epoch_data, event_codes, epochs_data,
                   event_ids, events_array, identified_artifacts, prompted,
                   epochs_clean, epochs>>

\* ica.py:204-207
IcaPlot ==
    /\ stage = "ica" /\ pc = "plot"
    /\ fs' = [fs EXCEPT !.plotfile = File(<<"components", ica.n_components>>)]
    /\ pc' = "mark"
    /\ UNCHANGED <<cli, stage, args, status, df, target_length, icaLocals,
                   epochs>>

\* the branches in the other order: a given list beats the inspection flag
MarkingModeListFirst(a) ==
    IF a.artifacts.type # "NoneType" THEN "list"
    ELSE IF a.inspection THEN "interactive"
    ELSE "none"

\* ica.py:211, 220: which branch sets the exclusion list
MarkingMode(a) ==
    IF a.inspection THEN "interactive"
    ELSE IF a.artifacts.type # "NoneType" THEN "list"
    ELSE "none"

\* ica.py:211-212, 220-223
IcaMark ==
    /\ stage = "ica" /\ pc = "mark"
    /\ CASE MarkingMode(args) = "interactive" ->
              /\ identified_artifacts' = <<>>
              /\ pc' = "inspect"
              /\ UNCHANGED <<ica, status>>
         [] MarkingMode(args) = "list" ->
              LET parsed == ParseArtifacts(args.artifacts.text)
              IN IF \A k \in 1..Len(parsed) : parsed[k].ok
                 THEN /\ ica' = [ica EXCEPT !.exclude =
                                    [k \in 1..Len(parsed) |-> parsed[k].value]]
                      /\ pc' = "apply"
                      /\ UNCHANGED <<identified_artifacts, status>>
                 ELSE /\ Fail("ValueError")
                      /\ UNCHANGED <<ica, identified_artifacts>>
         [] MarkingMode(args) = "none" ->
              /\ pc' = "apply"
              /\ UNCHANGED <<ica, identified_artifacts, status>>
    /\ UNCHANGED <<cli, stage, args, fs, df, target_length, sfreq, events,
                   channels, epoch_data, event_codes, epochs_data, event_ids,
                   events_array, prompted, epochs_clean, epochs>>

\* the comparison without lower()
AcceptsCaseSensitive(response) == response = <<"y">>

\* ica.py:216
Accepts(response) == Lower(response) = <<"y">>

\* ica.py:213-217: one iteration of the loop, the response typed by the user
IcaPrompt ==
    /\ stage = "ica" /\ pc = "inspect"
    /\ Len(prompted) < ica.n_components
    /\ \E response \in Responses :
         LET i == Len(prompted)
         IN /\ prompted' =
                  Append(prompted, [index |-> i, response |-> response])
            /\ identified_artifacts' =
                  IF Accepts(response) THEN Append(identified_artifacts, i)
                  ELSE identified_artifacts
    /\ UNCHANGED <<cli, stage, args, fs, pc, status, df, target_length, sfreq,
                   events, channels, epoch_data, event_codes, epochs_data,
                   event_ids, events_array, ica, epochs_clean, epochs>>

\* ica.py:218-219
IcaSetIdentified ==
    /\ stage = "ica" /\ pc = "inspect"
    /\ Len(prompted) = ica.n_components
    /\ ica' = [ica EXCEPT !.exclude = identified_artifacts]
    /\ pc' = "apply"
    /\ UNCHANGED <<cli, stage, args, fs, status, df, target_length, sfreq,
                   events, channels, epoch_data, event_codes, epochs_data,
                   event_ids, events_array, identified_artifacts, prompted,
                   epochs_clean, epochs>>

\* the epochs themselves cleaned, without the copy
IcaApplyInPlace ==
    /\ stage = "ica" /\ pc = "apply"
    /\ epochs_clean' = [source |-> epochs_data, removed |-> ica.exclude]
    /\ epochs_data' = <<epochs_clean'>>
    /\ ica' = [ica EXCEPT !.applied = @ + 1]
    /\ pc' = "save"
    /\ UNCHANGED <<cli, stage, args, fs, status, df, target_length, sfreq,
                   events, channels, epoch_data, event_codes, event_ids,
                   events_array, identified_artifacts, prompted, epochs>>

\* ica.py:226-227: the copy is cleaned, the excluded components zeroed
IcaApply ==
    /\ stage = "ica" /\ pc = "apply"
    /\ epochs_clean' = [source |-> epochs_data, removed |-> ica.exclude]
    /\ ica' = [ica EXCEPT !.applied = @ + 1]
    /\ pc' = "save"
    /\ UNCHANGED <<cli, stage, args, fs, status, df, target_length, sfreq,
                   events, channels, epoch_data, event_codes, epochs_data,
                   event_ids, events_array, identified_artifacts, prompted,
                   epochs>>

\* ica.py:230-231
IcaSave ==
    /\ stage = "ica" /\ pc = "save"
    /\ fs' = [fs EXCEPT ![args.outpath] = File(epochs_clean)]
    /\ status' = "ok"
    /\ pc' = "done"
    /\ UNCHANGED <<cli, stage, args, df, target_length, icaLocals, epochs>>

NextIca ==
    \/ IcaValidate
    \/ IcaRead
    \/ IcaAssemble
    \/ IcaFit
    \/ IcaPlot
    \/ IcaMark
    \/ IcaPrompt
    \/ IcaSetIdentified
    \/ IcaApply
    \/ IcaSave

SpecIca == InitIca /\ [][NextIca]_vars

(***************************************************************************)
(* Re-referencing stage: workflow/scripts/denoising.py, main.              *)
(* Samples of an Epochs object are exact fractions data / denom, so that   *)
(* the cross-channel mean is represented without rounding.                 *)
(***************************************************************************)
RECURSIVE SeqSum(_)
SeqSum(s) == IF s = <<>> THEN 0 ELSE s[1] + SeqSum(Tail(s))

EpochsObject(data, names) ==
    [data |-> data, denom |-> 1, ch_names |-> names, projs |-> <<>>]

\* The epoch tensor the ICA stage saves for a truncated table
EpochsFile(table) ==
    EpochsObject(AssembleEpochs(table, table[1].size), ChannelsOf(table))

InitDenoise ==
    /\ stage = "denoise"
    /\ pc = "validate"
    /\ status = "running"
    /\ \/ /\ args = GoodArgs
          /\ \E n \in 1..MaxRows, T \in TargetLengths :
                \E c \in [1..n -> RowChoices] :
                    fs = FileSystem(File(EpochsFile(IcaTable(n, T, c, {}))))
       \/ /\ args \in {[GoodArgs EXCEPT !.infile = a, !.outfile = b] :
                          a \in {"str", "int"}, b \in {"str", "int"}}
          /\ \E c \in {Absent, File(EpochsFile(FullTable))}, d \in BOOLEAN :
                fs = [FileSystem(c) EXCEPT !.outdir = d]
    /\ InitLocals

\* denoising.py:64-79
DenoiseValidate ==
    /\ stage = "denoise" /\ pc = "validate"
    /\ IF args.infile # "str" \/ args.outfile # "str" THEN Fail("TypeError")
       ELSE IF ~fs.infile.exists THEN Fail("FileNotFoundError")
       ELSE pc' = "read" /\ UNCHANGED status
    /\ UNCHANGED <<cli, stage, args, fs, df, target_length, icaLocals, epochs>>

\* denoising.py:83
DenoiseRead ==
    /\ stage = "denoise" /\ pc = "read"
    /\ epochs' = fs.infile.content
    /\ pc' = "set_reference"
    /\ UNCHANGED <<cli, stage, args, fs, status, df, target_length, icaLocals>>

\* denoising.py:87: the average reference is added as an inactive projector
DenoiseSetReference ==
    /\ stage = "denoise" /\ pc = "set_reference"
    /\ epochs' = [epochs EXCEPT !.projs =
                     Append(@, [kind |-> "average", active |-> FALSE])]
    /\ pc' = "apply_proj"
    /\ UNCHANGED <<cli, stage, args, fs, status, df, target_length, icaLocals>>

\* re-referencing to the first channel instead of the average
ReferenceFirstChannel(x, c) == Len(x) * (x[c] - x[1])

\* The average-reference projector I - (1/n) 1 1^T on one time sample:
\* n * (x[c] - mean(x)), the numerator of x[c] - mean(x) over n
Reference(x, c) == Len(x) * x[c] - SeqSum(x)

\* denoising.py:88: every active-to-be projector is applied to the data
DenoiseApplyProj ==
    /\ stage = "denoise" /\ pc = "apply_proj"
    /\ LET d == epochs.data
           n == Len(epochs.ch_names)
       IN epochs' =
            [epochs EXCEPT
               !.data = [e \in 1..Len(d) |->
                           [c \in 1..Len(d[e]) |->
                              [t \in 1..Len(d[e][c]) |->
                                 Reference([k \in 1..n |-> d[e][k][t]], c)]]],
               !.denom = @ * n,
               !.projs = [k \in 1..Len(@) |-> [@[k] EXCEPT !.active = TRUE]]]
    /\ pc' = "save"
    /\ UNCHANGED <<cli, stage, args, fs, status, df, target_length, icaLocals>>

\* denoising.py:91-93: writing below a directory that does not exist fails
DenoiseSave ==
    /\ stage = "denoise" /\ pc = "save"
    /\ IF fs.outdir
       THEN /\ fs' = [fs EXCEPT ![args.outpath] = File(epochs)]
            /\ status' = "ok"
            /\ pc' = "done"
       ELSE /\ Fail("FileNotFoundError")
            /\ UNCHANGED fs
    /\ UNCHANGED <<cli, stage, args, df, target_length, icaLocals, epochs>>

NextDenoise ==
    \/ DenoiseValidate
    \/ DenoiseRead
    \/ DenoiseSetReference
    \/ DenoiseApplyProj
    \/ DenoiseSave

SpecDenoise == InitDenoise /\ [][NextDenoise]_vars

(***************************************************************************)
(* Ingestion stage: workflow/scripts/load_data.py, main.                   *)
(* A line of the input file is the sequence of its tab-delimited fields,   *)
(* a field a sequence of characters, a float an exact fraction num / den.  *)
(***************************************************************************)
\* load_data.py:47
MOCK_SIZE == 10000

\* load_data.py:136, 0.125 as a fraction
conversion_factor == [num |-> 1, den |-> 8]

IsBlank(field) == \A k \in 1..Len(field) : field[k] \in WhitespaceChars

RECURSIVE LStrip(_)
LStrip(tok) ==
    IF tok # <<>> /\ tok[1] \in WhitespaceChars THEN LStrip(Tail(tok))
    ELSE tok

RECURSIVE RStrip(_)
RStrip(tok) ==
    IF tok # <<>> /\ tok[Len(tok)] \in WhitespaceChars
    THEN RStrip(SubSeq(tok, 1, Len(tok) - 1))
    ELSE tok

\* load_data.py:118, line.strip().split("\t"): a tab is whitespace, so the
\* blank fields at either end of the line go away with their tabs
SplitLine(line) ==
    IF \A i \in 1..Len(line) : IsBlank(line[i]) THEN << <<>> >>
    ELSE LET first == CHOOSE i \in 1..Len(line) :
                         /\ ~IsBlank(line[i])
                         /\ \A j \in 1..(i - 1) : IsBlank(line[j])
             last == CHOOSE i \in 1..Len(line) :
                        /\ ~IsBlank(line[i])
                        /\ \A j \in (i + 1)..Len(line) : IsBlank(line[j])
         IN [k \in 1..(last - first + 1) |->
               LET f == line[first + k - 1]
                   l == IF k = 1 THEN LStrip(f) ELSE f
               IN IF k = last - first + 1 THEN RStrip(l) ELSE l]

RECURSIVE Pow10(_)
Pow10(n) == IF n = 0 THEN 1 ELSE 10 * Pow10(n - 1)

\* float(tok) on decimal literals: surrounding whitespace dropped, an
\* optional sign, digits with at most one point and at least one digit
ParseFloat(tok) ==
    LET body == Strip(tok)
        signed == body # <<>> /\ body[1] \in {"-", "+"}
        rest == IF signed THEN Tail(body) ELSE body
        points == {k \in 1..Len(rest) : rest[k] = "."}
        point == IF points = {} THEN Len(rest) + 1
                 ELSE CHOOSE k \in points : TRUE
        whole == SubSeq(rest, 1, point - 1)
        frac == SubSeq(rest, point + 1, Len(rest))
        digits == whole \o frac
    IN IF /\ Cardinality(points) <= 1
          /\ digits # <<>>
          /\ \A k \in 1..Len(digits) : digits[k] \in DecimalChars
       THEN [ok |-> TRUE,
             value |-> [num |-> IF signed /\ body[1] = "-"
                                THEN 0 - DecimalValue(digits)
                                ELSE DecimalValue(digits),
                        den |-> Pow10(Len(frac))]]
       ELSE [ok |-> FALSE, value |-> [num |-> 0, den |-> 1]]

\* load_data.py:126
ParseSignal(field) ==
    [k \in 1..Len(Split(field)) |-> ParseFloat(Split(field)[k])]

\* load_data.py:119-127: the dict entries are evaluated in order, a missing
\* field raises IndexError, a failed conversion ValueError
ParseLine(line) ==
    LET parts == SplitLine(line)
        IntAt(k) == IF k <= Len(parts) THEN ParseInt(parts[k])
                  ELSE [ok |-> FALSE, value |-> 0]
        TextAt(k) == IF k <= Len(parts) THEN parts[k] ELSE <<>>
        sig == IF Len(parts) >= 7 THEN ParseSignal(parts[7]) ELSE <<>>
        Missing(k) == Len(parts) < k
        error ==
            IF Missing(1) THEN "IndexError"
            ELSE IF ~IntAt(1).ok THEN "ValueError"
            ELSE IF Missing(2) THEN "IndexError"
            ELSE IF ~IntAt(2).ok THEN "ValueError"
            ELSE IF Missing(3) THEN "IndexError"
            ELSE IF Missing(4) THEN "IndexError"
            ELSE IF Missing(5) THEN "IndexError"
            ELSE IF ~IntAt(5).ok THEN "ValueError"
            ELSE IF Missing(6) THEN "IndexError"
            ELSE IF ~IntAt(6).ok THEN "ValueError"
            ELSE IF Missing(7) THEN "IndexError"
            ELSE IF \E k \in 1..Len(sig) : ~sig[k].ok THEN "ValueError"
            ELSE "none"
    IN [error |-> error,
        row |-> [id |-> IntAt(1).value, event |-> IntAt(2).value,
                 device |-> TextAt(3), channel |-> TextAt(4),
                 code |-> IntAt(5).value, size |-> IntAt(6).value,
                 signal |-> [k \in 1..Len(sig) |-> sig[k].value]]]

\* load_data.py:132: the row without its device column
DropDevice(row) ==
    [id |-> row.id, event |-> row.event, channel |-> row.channel,
     code |-> row.code, size |-> row.size, signal |-> row.signal]

\* the samples left as they were parsed
ConvertNone(row) == row

\* load_data.py:137-139
Convert(row) ==
    [row EXCEPT !.signal =
        [k \in 1..Len(@) |-> [num |-> @[k].num * conversion_factor.num,
                              den |-> @[k].den * conversion_factor.den]]]

\* load_data.py:142, DataFrame.head(n)
HeadRows(table, n) == Prefix(table, n)

\* The lines a file is made of.  The first two are well-formed; the others
\* are short, blank, carry a value that is not a number, or have a field
\* too many.
GoodFields(id, channel, size, signal) ==
    << id, <<"1">>, <<"E", "P">>, channel, <<"2">>, size, signal >>

LineA == GoodFields(<<"1">>, <<"O", "1">>, <<"2">>, <<"1", ",", "2">>)
LineB == GoodFields(<<"2">>, <<"O", "2">>, <<"3">>,
                    <<"-", "3", ",", "0", ".", "2">>)

Lines ==
    { LineA,
      LineB,
      SubSeq(LineA, 1, 6),                       \* no signal field
      << <<>> >>,                                \* an empty line
      [LineA EXCEPT ![1] = <<"x">>],             \* id: not a number
      [LineA EXCEPT ![1] = <<"1", ".", "2">>],   \* id: not an integer
      [LineA EXCEPT ![6] = <<"x">>],             \* size: not a number
      [LineA EXCEPT ![7] = <<"1", ",", "x">>],   \* a sample: not a number
      [LineA EXCEPT ![7] = <<>>],                \* the signal is empty
      << <<>> >> \o LineA,                       \* an empty field first
      LineA \o << <<"3">> >> }                   \* an eighth field

\* the decimal digit characters by value
IndexText == <<"0", "1", "2", "3", "4", "5">>

\* base-4 digits of i, most significant first: a decimal literal of its own
\* for every line number
RECURSIVE IdText(_)
IdText(i) ==
    IF i < 4 THEN <<IndexText[i + 1]>>
    ELSE Append(IdText(i \div 4), IndexText[(i % 4) + 1])

\* a long file of well-formed lines, each with an id of its own
LongFile(n) ==
    [i \in 1..n |-> GoodFields(IdText(i), <<"O", "1">>, <<"1">>, <<"1">>)]

LoadArgs(m) == [mockType |-> "bool", mock |-> m] @@ GoodArgs

InitLoad ==
    /\ stage = "load"
    /\ pc = "validate"
    /\ status = "running"
    /\ \/ /\ \E m \in BOOLEAN : args = LoadArgs(m)
          /\ \/ \E n \in 0..MaxRows : \E f \in [1..n -> Lines] :
                   fs = FileSystem(File(f))
             \/ \E n \in {MOCK_SIZE - 1, MOCK_SIZE, MOCK_SIZE + 1} :
                   fs = FileSystem(File(LongFile(n)))
       \/ /\ \E a \in {"str", "int"}, b \in {"str", "int"},
                t \in {"bool", "int"} :
                args = [LoadArgs(FALSE) EXCEPT !.infile = a, !.outfile = b,
                                               !.mockType = t]
          /\ \E c \in {Absent, File(<<LineA, LineB>>)}, d \in BOOLEAN :
                fs = [FileSystem(c) EXCEPT !.outdir = d]
    /\ InitLocals

\* the output directory checked ahead of the input file
LoadEntryErrorOutdirFirst(a, f) ==
    IF a.infile # "str" \/ a.outfile # "str" \/ a.mockType # "bool"
    THEN "TypeError"
    ELSE IF ~f.outdir THEN "ValueError"
    ELSE IF ~f.infile.exists THEN "FileNotFoundError"
    ELSE "none"

\* load_data.py:72-98: the exception the entry checks raise
LoadEntryError(a, f) ==
    IF a.infile # "str" \/ a.outfile # "str" \/ a.mockType # "bool"
    THEN "TypeError"
    ELSE IF ~f.infile.exists THEN "FileNotFoundError"
    ELSE IF ~f.outdir THEN "ValueError"
    ELSE "none"

LoadValidate ==
    /\ stage = "load" /\ pc = "validate"
    /\ IF LoadEntryError(args, fs) # "none"
       THEN Fail(LoadEntryError(args, fs))
       ELSE pc' = "read" /\ UNCHANGED status
    /\ UNCHANGED <<cli, stage, args, fs, df, target_length, icaLocals, epochs>>

\* load_data.py:113-131: every line is parsed in file order; the first line
\* that cannot be parsed ends the stage with its exception
LoadRead ==
    /\ stage = "load" /\ pc = "read"
    /\ LET file == fs.infile.content
           parsed == [i \in 1..Len(file) |-> ParseLine(file[i])]
           bad == {i \in 1..Len(file) : parsed[i].error # "none"}
       IN IF bad = {}
          THEN /\ df' = [i \in 1..Len(file) |-> parsed[i].row]
               /\ pc' = "convert"
               /\ UNCHANGED status
          ELSE /\ Fail(parsed[CHOOSE i \in bad : \A j \in bad : i <= j].error)
               /\ UNCHANGED df
    /\ UNCHANGED <<cli, stage, args, fs, target_length, icaLocals, epochs>>

\* load_data.py:132-142
LoadConvert ==
    /\ stage = "load" /\ pc = "convert"
    /\ LET converted == [i \in 1..Len(df) |-> Convert(DropDevice(df[i]))]
       IN df' = IF args.mock THEN HeadRows(converted, MOCK_SIZE) ELSE converted
    /\ pc' = "write"
    /\ UNCHANGED <<cli, stage, args, fs, status, target_length, icaLocals,
                   epochs>>

\* load_data.py:144-145
LoadWrite ==
    /\ stage = "load" /\ pc = "write"
    /\ fs' = [fs EXCEPT ![args.outpath] = File(df)]
    /\ status' = "ok"
    /\ pc' = "done"
    /\ UNCHANGED <<cli, stage, args, df, target_length, icaLocals, epochs>>

NextLoad ==
    \/ LoadValidate
    \/ LoadRead
    \/ LoadConvert
    \/ LoadWrite
    \/ Exit

SpecLoad == InitLoad /\ [][NextLoad]_vars

(***************************************************************************)
(* Bandpass stage: workflow/scripts/bandpass_filter.py.                    *)
(***************************************************************************)
\* bandpass_filter.py:47, the defaults of bandpass_filter
lowcut == 1
highcut == 60
order == 5

\* scipy.signal.filtfilt pads with 3 * max(len(a), len(b)) samples at each
\* end, and a band filter of order n has 2n + 1 coefficients; the signal
\* has to be longer than the padding
PadLen == 3 * (2 * order + 1)

\* the sizes a record comes with: none, too small for either cutoff, the
\* largest that is too small for the high cutoff, and two that are large
\* enough
SamplingRates == {0, 2, 2 * highcut, 2 * highcut + 1, 256}

\* a record of the ingested table with PadLen + extra samples
BandpassRow(i, c) ==
    [id |-> i, event |-> (i + 1) \div 2, channel |-> ChannelNames[2 - (i % 2)],
     code |-> 5, size |-> c.size, signal |-> Signal(i, PadLen + c.extra)]

BandpassTable(n, c) == [i \in 1..n |-> BandpassRow(i, c[i])]

\* a table without the size column
NoSizeTable ==
    << [id |-> 1, event |-> 1, channel |-> "O1", code |-> 5,
        signal |-> Signal(1, PadLen + 1)] >>

InitBandpass ==
    /\ stage = "bandpass"
    /\ pc = "validate"
    /\ status = "running"
    /\ \/ /\ args = GoodArgs
          /\ \/ \E n \in 1..MaxRows :
                   \E c \in [1..n -> [size : SamplingRates, extra : {0, 1}]] :
                       fs = FileSystem(File(BandpassTable(n, c)))
             \/ fs = FileSystem(File(NoSizeTable))
       \/ /\ args \in {[GoodArgs EXCEPT !.infile = a, !.outfile = b] :
                          a \in {"str", "int"}, b \in {"str", "int"}}
          /\ \E c \in {Absent,
                       File(BandpassTable(1, <<[size |-> 256, extra |-> 1]>>))},
                d \in BOOLEAN :
                fs = [FileSystem(c) EXCEPT !.outdir = d]
    /\ InitLocals

\* bandpass_filter.py:97-112: the exception the entry checks raise
BandpassEntryError(a, f) ==
    IF a.infile # "str" \/ a.outfile # "str" THEN "TypeError"
    ELSE IF ~f.infile.exists THEN "FileNotFoundError"
    ELSE "none"

BandpassValidate ==
    /\ stage = "bandpass" /\ pc = "validate"
    /\ IF BandpassEntryError(args, fs) # "none"
       THEN Fail(BandpassEntryError(args, fs))
       ELSE pc' = "read" /\ UNCHANGED status
    /\ UNCHANGED <<cli, stage, args, fs, df, target_length, icaLocals, epochs>>

\* bandpass_filter.py:116
BandpassRead ==
    /\ stage = "bandpass" /\ pc = "read"
    /\ df' = fs.infile.content
    /\ pc' = "filter"
    /\ UNCHANGED <<cli, stage, args, fs, status, target_length, icaLocals,
                   epochs>>

\* bandpass_filter.py:69-73: the exception bandpass_filter ends with.  The
\* row of DataFrame.apply holds size as a Python int, so that with
\* nyquist = 0.0 the division raises ZeroDivisionError; butter raises
\* ValueError unless 0 < low and high < 1, filtfilt raises ValueError
\* unless the signal is longer than the padding.
FilterError(data, rate) ==
    IF rate = 0 THEN "ZeroDivisionError"
    ELSE IF ~(2 * lowcut < rate /\ 2 * highcut < rate) THEN "ValueError"
    ELSE IF Len(data) <= PadLen THEN "ValueError"
    ELSE "none"

\* bandpass_filter.py:47-74: the filtered signal, kept as the filter that
\* was designed and the samples it ran over
bandpass_filter(data, rate) ==
    [btype |-> "band", order |-> order, nyquist2 |-> rate,
     low |-> lowcut, high |-> highcut, x |-> data]

\* bandpass_filter.py:119-127: apply visits the rows in order, the first
\* row that cannot be filtered ends the stage with its exception
BandpassFilter ==
    /\ stage = "bandpass" /\ pc = "filter"
    /\ IF \E i \in 1..Len(df) : "size" \notin DOMAIN df[i]
       THEN Fail("ValueError") /\ UNCHANGED df
       ELSE LET bad == {i \in 1..Len(df) :
                           FilterError(df[i].signal, df[i].size) # "none"}
            IN IF bad = {}
               THEN /\ df' = [i \in 1..Len(df) |->
                                [df[i] EXCEPT !.signal =
                                    bandpass_filter(@, df[i].size)]]
                    /\ pc' = "write"
                    /\ UNCHANGED status
               ELSE /\ LET i == CHOOSE k \in bad : \A j \in bad : k <= j
                       IN Fail(FilterError(df[i].signal, df[i].size))
                    /\ UNCHANGED df
    /\ UNCHANGED <<cli, stage, args, fs, target_length, icaLocals, epochs>>

\* bandpass_filter.py:129-131: writing below a directory that does not
\* exist fails
BandpassWrite ==
    /\ stage = "bandpass" /\ pc = "write"
    /\ IF fs.outdir
       THEN /\ fs' = [fs EXCEPT ![args.outpath] = File(df)]
            /\ status' = "ok"
            /\ pc' = "done"
       ELSE /\ Fail("FileNotFoundError")
            /\ UNCHANGED fs
    /\ UNCHANGED <<cli, stage, args, df, target_length, icaLocals, epochs>>

NextBandpass ==
    \/ BandpassValidate
    \/ BandpassRead
    \/ BandpassFilter
    \/ BandpassWrite
    \/ Exit

SpecBandpass == InitBandpass /\ [][NextBandpass]_vars

(***************************************************************************)
(* Feature extraction stage: workflow/scripts/feature_extraction.py.       *)
(* A feature value is kept as the expression that computes it: the         *)
(* function applied and the samples it is applied to.                      *)
(***************************************************************************)
Families == {"statistical", "wavelet", "psd", "entropy"}

\* feature_extraction.py:115-120, in assignment order
StatisticalNames == <<"mean", "std", "max", "min", "kurtosis", "skewness">>

\* feature_extraction.py:123: wavedec returns the approximation and one
\* detail array per level
WaveletLevel == 5

\* feature_extraction.py:131
NPerSeg == 248

\* feature_extraction.py:95-101 with both edges doubled, in dict order
Bands ==
    << [name |-> "delta", low2 |-> 1, high2 |-> 8],
       [name |-> "theta", low2 |-> 8, high2 |-> 16],
       [name |-> "alpha", low2 |-> 16, high2 |-> 26],
       [name |-> "beta", low2 |-> 26, high2 |-> 60],
       [name |-> "gamma", low2 |-> 60, high2 |-> 90] >>

\* feature_extraction.py:105: data[:, i, :], one row per epoch
ChannelData(data, i) == [e \in 1..Len(data) |-> data[e][i]]

\* a reduction over the whole array: one value for the first epoch's samples
PerEpochFlattened(fn, channel_data) == <<[fn |-> fn, x |-> channel_data[1]]>>

\* a reduction along axis 1: one value per epoch
PerEpoch(fn, channel_data) ==
    [e \in 1..Len(channel_data) |-> [fn |-> fn, x |-> channel_data[e]]]

\* feature_extraction.py:107-120
StatisticalFeatures(channel, channel_data) ==
    [k \in 1..Len(StatisticalNames) |->
        [key |-> channel \o "_" \o StatisticalNames[k],
         value |-> PerEpoch(StatisticalNames[k], channel_data)]]

\* feature_extraction.py:122-128: coefficient array j gives two features,
\* IndexText[j + 1] being str(j)
WaveletFeatures(channel, channel_data) ==
    [k \in 1..(2 * (WaveletLevel + 1)) |->
        LET j == (k - 1) \div 2
            fn == IF k % 2 = 1 THEN "mean" ELSE "std"
        IN [key |-> channel \o "_wavelet_" \o IndexText[j + 1] \o "_" \o fn,
            value |-> PerEpoch("wavelet_" \o IndexText[j + 1] \o "_" \o fn,
                               channel_data)]]

\* scipy.signal.welch: a segment is nperseg samples, or the whole signal
\* when that is shorter; the frequencies are k * sfreq / segment for
\* k = 0 .. segment div 2
SegmentLength(n_times) == IF NPerSeg < n_times THEN NPerSeg ELSE n_times

\* the upper edge left out of the band
BandBinsHalfOpen(band, rate, n_times) ==
    LET seg == SegmentLength(n_times)
    IN {k \in 0..(seg \div 2) :
          /\ band.low2 * seg * rate.den <= 2 * k * rate.num
          /\ 2 * k * rate.num < band.high2 * seg * rate.den}

\* feature_extraction.py:134, the frequency bins with low <= f <= high
BandBins(band, rate, n_times) ==
    LET seg == SegmentLength(n_times)
    IN {k \in 0..(seg \div 2) :
          /\ band.low2 * seg * rate.den <= 2 * k * rate.num
          /\ 2 * k * rate.num <= band.high2 * seg * rate.den}

\* feature_extraction.py:130-136
PsdFeatures(channel, channel_data, rate) ==
    [k \in 1..Len(Bands) |->
        [key |-> channel \o "_" \o Bands[k].name \o "_power",
         value |-> [e \in 1..Len(channel_data) |->
                      [fn |-> "band_power",
                       bins |-> BandBins(Bands[k], rate,
                                         Len(channel_data[e])),
                       x |-> channel_data[e]]]]]

\* the sample entropy alone
EntropyFeaturesSampleOnly(channel, channel_data) ==
    << [key |-> channel \o "_sample_entropy",
        value |-> PerEpoch("sample_entropy", channel_data)] >>

\* feature_extraction.py:138-146
EntropyFeatures(channel, channel_data) ==
    << [key |-> channel \o "_sample_entropy",
        value |-> PerEpoch("sample_entropy", channel_data)],
       [key |-> channel \o "_approx_entropy",
        value |-> PerEpoch("app_entropy", channel_data)] >>

\* feature_extraction.py:104-146 for one channel: the assignments made to
\* the dict, in program order
ChannelFeatures(ep, i, feature_types) ==
    LET channel == ep.ch_names[i]
        channel_data == ChannelData(ep.data, i)
    IN (IF "statistical" \in Range(feature_types)
        THEN StatisticalFeatures(channel, channel_data) ELSE <<>>)
       \o (IF "wavelet" \in Range(feature_types)
           THEN WaveletFeatures(channel, channel_data) ELSE <<>>)
       \o (IF "psd" \in Range(feature_types)
           THEN PsdFeatures(channel, channel_data, ep.sfreq) ELSE <<>>)
       \o (IF "entropy" \in Range(feature_types)
           THEN EntropyFeatures(channel, channel_data) ELSE <<>>)

RECURSIVE FeatureAssignments(_, _, _)
FeatureAssignments(ep, n, feature_types) ==
    IF n = 0 THEN <<>>
    ELSE FeatureAssignments(ep, n - 1, feature_types)
         \o ChannelFeatures(ep, n, feature_types)

\* a dict after a sequence of d[key] = value: the last assignment wins
DictOf(assignments) ==
    [key \in {assignments[k].key : k \in 1..Len(assignments)} |->
        assignments[CHOOSE k \in 1..Len(assignments) :
            /\ assignments[k].key = key
            /\ \A m \in (k + 1)..Len(assignments) :
                  assignments[m].key # key].value]

\* feature_extraction.py:53-148
extract_features(ep, feature_types) ==
    DictOf(FeatureAssignments(ep, Len(ep.ch_names), feature_types))

\* The features argument: its Python type, its elements, and whether the
\* elements are all strings
FeatureList(items) == [type |-> "list", items |-> items, strings |-> TRUE]

RECURSIVE SeqOf(_)
SeqOf(S) ==
    IF S = {} THEN <<>>
    ELSE LET x == CHOOSE y \in S : TRUE IN <<x>> \o SeqOf(S \ {x})

\* the four families in the order of the parser's default
AllFamilies == <<"statistical", "wavelet", "psd", "entropy">>

\* selections main can be called with: any families, known or not
Selections == {SeqOf(S) : S \in SUBSET (Families \cup {"spectral"})}

FeaturesArgs(f) == [features |-> f] @@ GoodArgs

\* An epochs file as the earlier stages write it for a truncated table; the
\* sampling rate is the one ica.py:139 gave it
FeaturesFile(table) ==
    [sfreq |-> [num |-> table[1].size, den |-> 2]] @@ EpochsFile(table)

\* 5 channels, 1 epoch, 1000 samples at 100 Hz
ScenarioChannels == <<"ch1", "ch2", "ch3", "ch4", "ch5">>

ScenarioEpochs ==
    [sfreq |-> [num |-> 100, den |-> 1]]
    @@ EpochsObject(<< [c \in 1..5 |-> Signal(c, 1000)] >>, ScenarioChannels)

\* one epoch of one channel, 128 samples at 128 Hz: welch's frequencies are
\* 0, 1, ..., 64 Hz, the band edges 4, 8, 13 and 30 Hz among them
BoundaryEpochs ==
    [sfreq |-> [num |-> 128, den |-> 1]]
    @@ EpochsObject(<< <<Signal(1, 128)>> >>, <<"O1">>)

\* one epoch of two channels whose time axis has length zero, at 128 Hz
EmptyEpochs ==
    [sfreq |-> [num |-> 128, den |-> 1]]
    @@ EpochsObject(<< <<<<>>, <<>>>> >>, ChannelNames)

InitFeatures ==
    /\ stage = "features"
    /\ pc = "validate"
    /\ status = "running"
    /\ \/ /\ args = FeaturesArgs(FeatureList(AllFamilies))
          /\ \E n \in 1..MaxRows, T \in TargetLengths :
                \E c \in [1..n -> RowChoices] :
                    fs = FileSystem(File(FeaturesFile(IcaTable(n, T, c, {}))))
       \/ /\ \E sel \in Selections : args = FeaturesArgs(FeatureList(sel))
          /\ fs = FileSystem(File(FeaturesFile(FullTable)))
       \/ /\ args = FeaturesArgs(FeatureList(<<"psd">>))
          /\ fs \in {FileSystem(File(ScenarioEpochs)),
                     FileSystem(File(BoundaryEpochs))}
       \/ /\ \E S \in SUBSET (Families \ {"wavelet"}) :
                args = FeaturesArgs(FeatureList(SeqOf(S)))
          /\ fs = FileSystem(File(EmptyEpochs))
       \/ /\ \E a \in {"str", "int"}, b \in {"str", "int"},
                f \in {FeatureList(AllFamilies),
                       [FeatureList(AllFamilies) EXCEPT !.type = "str"],
                       [FeatureList(AllFamilies) EXCEPT !.strings = FALSE]} :
                args = [FeaturesArgs(f) EXCEPT !.infile = a, !.outfile = b]
          /\ \E c \in {Absent, File(FeaturesFile(FullTable))}, d \in BOOLEAN :
                fs = [FileSystem(c) EXCEPT !.outdir = d]
    /\ InitLocals

\* the existence check ahead of the type checks
FeaturesEntryErrorFilesFirst(a, f) ==
    IF ~f.infile.exists THEN "FileNotFoundError"
    ELSE IF a.infile # "str" \/ a.outfile # "str" THEN "TypeError"
    ELSE IF a.features.type # "list" \/ ~a.features.strings THEN "TypeError"
    ELSE IF ~f.outdir THEN "ValueError"
    ELSE "none"

\* feature_extraction.py:174-204: the exception the entry checks raise
FeaturesEntryError(a, f) ==
    IF a.infile # "str" \/ a.outfile # "str" THEN "TypeError"
    ELSE IF a.features.type # "list" \/ ~a.features.strings THEN "TypeError"
    ELSE IF ~f.infile.exists THEN "FileNotFoundError"
    ELSE IF ~f.outdir THEN "ValueError"
    ELSE "none"

FeaturesValidate ==
    /\ stage = "features" /\ pc = "validate"
    /\ IF FeaturesEntryError(args, fs) # "none"
       THEN Fail(FeaturesEntryError(args, fs))
       ELSE pc' = "read" /\ UNCHANGED status
    /\ UNCHANGED <<cli, stage, args, fs, df, target_length, icaLocals, epochs>>

\* feature_extraction.py:208
FeaturesRead ==
    /\ stage = "features" /\ pc = "read"
    /\ epochs' = fs.infile.content
    /\ pc' = "extract"
    /\ UNCHANGED <<cli, stage, args, fs, status, df, target_length, icaLocals>>

\* What the routines of a family do with signals that have no samples.
\* statistical: numpy's mean and std give NaN, its max raises ValueError
\* (feature_extraction.py:110).  psd: welch returns empty arrays of the
\* input's shape, so the frequency mask is two-dimensional and indexing
\* psd[:, mask] raises IndexError (feature_extraction.py:133-135).
\* entropy: antropy's app_entropy cannot embed the signal and raises
\* ValueError (feature_extraction.py:142-144).
EmptySignalError(family) ==
    CASE family = "statistical" -> "ValueError"
      [] family = "psd" -> "IndexError"
      [] family = "entropy" -> "ValueError"

\* feature_extraction.py:104-146: the exception the first channel raises,
\* the families being computed in program order
RoutineError(ep, feature_types) ==
    LET selected == SelectSeq(AllFamilies,
                              LAMBDA f : f \in Range(feature_types))
    IN IF /\ ep.ch_names # <<>> /\ ep.data # <<>>
          /\ ep.data[1][1] = <<>> /\ selected # <<>>
       THEN EmptySignalError(selected[1])
       ELSE "none"

\* feature_extraction.py:211
FeaturesExtract ==
    /\ stage = "features" /\ pc = "extract"
    /\ IF RoutineError(epochs, args.features.items) # "none"
       THEN /\ Fail(RoutineError(epochs, args.features.items))
            /\ UNCHANGED features
       ELSE /\ features' = extract_features(epochs, args.features.items)
            /\ pc' = "save"
            /\ UNCHANGED status
    /\ UNCHANGED <<exit_code, stage, args, fs, df, target_length, icaLocals,
                   epochs>>

\* feature_extraction.py:213-214; numpy.save writes to the path it is given
\* when the path ends in .npy
FeaturesSave ==
    /\ stage = "features" /\ pc = "save"
    /\ fs' = [fs EXCEPT ![args.outpath] = File(features)]
    /\ status' = "ok"
    /\ pc' = "done"
    /\ UNCHANGED <<cli, stage, args, df, target_length, icaLocals, epochs>>

NextFeatures ==
    \/ FeaturesValidate
    \/ FeaturesRead
    \/ FeaturesExtract
    \/ FeaturesSave
    \/ Exit

SpecFeatures == InitFeatures /\ [][NextFeatures]_vars

(***************************************************************************)
(* Any one stage, run from its command line.  The arguments may be of the  *)
(* wrong type, the input file and the output directory may be missing,     *)
(* and the outfile argument may name the input file itself.                *)
(***************************************************************************)
\* well-typed arguments of a stage
PipelineArgs(s) ==
    CASE s = "load" -> {LoadArgs(FALSE), LoadArgs(TRUE)}
      [] s = "features" -> {FeaturesArgs(FeatureList(AllFamilies))}
      [] s = "ica" ->
           {GoodArgs,
            [GoodArgs EXCEPT !.inspection = TRUE],
            [GoodArgs EXCEPT !.artifacts = Artifacts(<<"1", ",", "2">>)],
            [GoodArgs EXCEPT !.artifacts = Artifacts(<<"1", ",", "x">>)]}
      [] OTHER -> {GoodArgs}

\* input files of a stage: one it processes, and ones it fails on
PipelineFiles(s) ==
    CASE s = "load" ->
           {<<LineA, LineB>>, <<SubSeq(LineA, 1, 6)>>,
            <<[LineA EXCEPT ![6] = <<"x">>]>>}
      [] s = "bandpass" ->
           {BandpassTable(1, <<[size |-> r, extra |-> 1]>>) :
               r \in {0, 2, 256}}
      [] s = "truncate" -> {ScenarioTable, <<>>}
      [] s = "ica" ->
           {FullTable, <<FullRow(1, 1, "O1", 5), IcaRow(2, 2, [event |-> 1,
                           channel |-> "O2", code |-> 5], {2})>>}
      [] s = "denoise" -> {EpochsFile(FullTable)}
      [] s = "features" -> {FeaturesFile(FullTable)}

InitPipeline ==
    /\ pc = "validate"
    /\ status = "running"
    /\ \E s \in Stages :
          /\ stage = s
          /\ \E a \in PipelineArgs(s), i \in {"str", "int"},
                o \in {"str", "int"}, p \in {"outfile", "infile"} :
                args = [a EXCEPT !.infile = i, !.outfile = o, !.outpath = p]
          /\ \E c \in {Absent} \cup {File(x) : x \in PipelineFiles(s)},
                d \in BOOLEAN :
                fs = [FileSystem(c) EXCEPT !.outdir = d]
    /\ InitLocals

NextPipeline ==
    \/ NextLoad
    \/ NextBandpass
    \/ NextTruncate
    \/ NextIca
    \/ NextDenoise
    \/ NextFeatures

SpecPipeline == InitPipeline /\ [][NextPipeline]_vars

(***************************************************************************)
(* Properties of the truncation stage (SpecTruncate).                      *)
(***************************************************************************)
TruncateInput == fs.infile.content
TruncateOutput == fs.outfile.content

TruncateSucceeded == stage = "truncate" /\ status = "ok"

\* the smallest value of the input's size column
MinSize(table) ==
    CHOOSE m \in Range(Column(table, "size")) :
        \A x \in Range(Column(table, "size")) : m <= x

\* C1: after the truncation stage every record's signal has the same
\* length, that length is target_length, and target_length is the minimum
\* of the input's size column.
C1_AllSignalsTargetLength ==
    TruncateSucceeded =>
        /\ target_length = MinSize(TruncateInput)
        /\ \A i \in 1..Len(TruncateOutput) :
              Len(TruncateOutput[i].signal) = target_length

\* C2: every output signal consists of the leading samples of its record's
\* input signal, up to target_length of them, in the same order; every
\* record's size is target_length.  The table of sizes 5, 3, 4 becomes
\* [1,2,3], [6,7,8], [9,10,11] with size 3.
C2_PrefixAndSize ==
    TruncateSucceeded =>
        /\ Len(TruncateOutput) = Len(TruncateInput)
        /\ \A i \in 1..Len(TruncateOutput) :
              LET in == TruncateInput[i].signal
                  out == TruncateOutput[i].signal
              IN /\ Len(out) = Cardinality({k \in 1..Len(in) :
                                               k <= target_length})
                 /\ \A k \in 1..Len(out) : out[k] = in[k]
                 /\ TruncateOutput[i].size = target_length
        /\ TruncateInput = ScenarioTable =>
              /\ Column(TruncateOutput, "signal") =
                    << <<1, 2, 3>>, <<6, 7, 8>>, <<9, 10, 11>> >>
              /\ Column(TruncateOutput, "size") = <<3, 3, 3>>

\* a run that cut samples off a signal and kept at least one
C2_Witness ==
    /\ TruncateSucceeded
    /\ target_length >= 1
    /\ \E i \in 1..Len(TruncateInput) :
          Len(TruncateInput[i].signal) > target_length

\* a signal of the input is shorter than the minimum of the size column
Ragged(table) ==
    /\ Len(table) > 0
    /\ \E i \in 1..Len(table) : Len(table[i].signal) < MinSize(table)

\* C3: when a signal's length differs from target_length after the
\* truncation, the stage fails with ValueError and writes no output table.
C3_RaggedInputRejected ==
    ( /\ stage = "truncate" /\ pc = "done"
      /\ args = GoodArgs /\ fs.infile.exists /\ fs.outdir
      /\ Ragged(TruncateInput) )
    => (status = "ValueError" /\ ~fs.outfile.exists)

(***************************************************************************)
(* Properties of the ICA stage (SpecIca).                                  *)
(***************************************************************************)
IcaInput == fs.infile.content

\* the assembly loop of ica.py:148-163 has run
Assembled == stage = "ica" /\ events # <<>>

\* the 3-D array of ica.py:166 exists
TensorBuilt == Assembled /\ epochs_data # <<>>

DistinctEvents(table) == Range(Column(table, "event"))
DistinctChannels(table) == Range(Column(table, "channel"))

HasRow(table, event, channel) ==
    \E i \in 1..Len(table) :
        table[i].event = event /\ table[i].channel = channel

\* a table as the truncation stage promises it: one common size, and every
\* signal of exactly that length
IsTruncated(table) ==
    \A i \in 1..Len(table) :
        /\ table[i].size = table[1].size
        /\ Len(table[i].signal) = table[1].size

IsZeroVector(v, n) == Len(v) = n /\ \A k \in 1..n : v[k] = 0

\* C4: where an event has no row for a known channel, the epoch holds an
\* all-zero vector of length target_length at that channel's position; no
\* event is dropped; and for a truncated table the tensor is built, no
\* error is raised.
C4_MissingChannelZeroPadded ==
    Assembled =>
        /\ Len(epoch_data) = Cardinality(DistinctEvents(IcaInput))
        /\ \A e \in 1..Len(epoch_data) : \A c \in 1..Len(epoch_data[e]) :
              ~HasRow(IcaInput, events[e], channels[c]) =>
                  IsZeroVector(epoch_data[e][c], IcaInput[1].size)
        /\ IsTruncated(IcaInput) =>
              /\ TensorBuilt
              /\ epochs_data = epoch_data

\* a truncated table with a missing (event, channel) row went through
C4_Witness ==
    /\ TensorBuilt /\ status = "ok"
    /\ IsTruncated(IcaInput)
    /\ \E e \in 1..Len(events), c \in 1..Len(channels) :
          ~HasRow(IcaInput, events[e], channels[c])

\* C5: for a truncated table the tensor has shape (distinct events,
\* distinct channels, target_length), target_length = 2 * sfreq = size of
\* the first record; position c holds the same channel in every epoch, the
\* channels standing in order of first appearance.
C5_TensorShape ==
    (Assembled /\ IsTruncated(IcaInput)) =>
        /\ TensorBuilt
        /\ target_length = IcaInput[1].size
        /\ 2 * sfreq.num = target_length * sfreq.den
        /\ Len(epochs_data) = Cardinality(DistinctEvents(IcaInput))
        /\ Range(channels) = DistinctChannels(IcaInput)
        /\ Len(channels) = Cardinality(DistinctChannels(IcaInput))
        /\ \A c1, c2 \in 1..Len(channels) :
              c1 < c2 =>
                  FirstIndex(Column(IcaInput, "channel"), channels[c1])
                    < FirstIndex(Column(IcaInput, "channel"), channels[c2])
        /\ \A e \in 1..Len(epochs_data) :
              /\ Len(epochs_data[e]) = Len(channels)
              /\ \A c \in 1..Len(channels) :
                    /\ Len(epochs_data[e][c]) = target_length
                    /\ \/ IsZeroVector(epochs_data[e][c], target_length)
                       \/ \E i \in 1..Len(IcaInput) :
                             /\ IcaInput[i].channel = channels[c]
                             /\ IcaInput[i].event = events[e]
                             /\ IcaInput[i].signal = epochs_data[e][c]

\* two events and two channels, the second epoch starting with the channel
\* that the table lists second
C5_Witness ==
    /\ TensorBuilt /\ status = "ok"
    /\ IsTruncated(IcaInput)
    /\ Len(events) = 2 /\ Len(channels) = 2
    /\ \E i, j \in 1..Len(IcaInput) :
          /\ i < j
          /\ IcaInput[i].event = events[2] /\ IcaInput[j].event = events[2]
          /\ IcaInput[i].channel = channels[2]
          /\ IcaInput[j].channel = channels[1]

\* the indices whose typed response was y or Y, in prompt order
RECURSIVE AcceptedIndices(_)
AcceptedIndices(log) ==
    IF log = <<>> THEN <<>>
    ELSE LET rest == AcceptedIndices(SubSeq(log, 1, Len(log) - 1))
             last == log[Len(log)]
         IN IF last.response \in {<<"y">>, <<"Y">>}
            THEN Append(rest, last.index) ELSE rest

CommaCount(text) == Cardinality({k \in 1..Len(text) : text[k] = ","})

\* C6: one mode decides the exclusion list.  With inspection requested the
\* list is exactly the accepted prompts, whether or not an artifact list
\* was given; without inspection and with a list, it has one entry per
\* listed token and nothing was prompted; with neither it is empty.
C6_OneModeDecides ==
    (stage = "ica" /\ status = "ok") =>
        /\ args.inspection =>
              /\ Len(prompted) = ica.n_components
              /\ ica.exclude = AcceptedIndices(prompted)
        /\ (~args.inspection /\ args.artifacts.type = "str") =>
              /\ prompted = <<>>
              /\ Len(ica.exclude) = CommaCount(args.artifacts.text) + 1
              /\ args.artifacts.text = <<"1", ",", "2", ",", "3">> =>
                    ica.exclude = <<1, 2, 3>>
        /\ (~args.inspection /\ args.artifacts.type = "NoneType") =>
              /\ prompted = <<>>
              /\ ica.exclude = <<>>
        /\ fs.outfile.content.removed = ica.exclude

\* both were requested, and the accepted prompts differ from the list
C6_Witness ==
    /\ stage = "ica" /\ status = "ok"
    /\ args.inspection
    /\ args.artifacts = Artifacts(<<"0">>)
    /\ ica.exclude = <<0, 1>>

\* C7: the artifact text "1,2,3\n", loaded without inspection, yields the
\* exclusion list 1, 2, 3, which is set on the ICA before the cleaned
\* tensor is reconstructed and saved.
C7_TrailingNewlineList ==
    ( /\ stage = "ica" /\ pc = "done"
      /\ ~args.inspection
      /\ args.artifacts = Artifacts(<<"1", ",", "2", ",", "3", "\n">>) )
    => /\ status = "ok"
       /\ ica.exclude = <<1, 2, 3>>
       /\ fs.outfile.exists
       /\ fs.outfile.content.removed = <<1, 2, 3>>

\* C8: with neither inspection nor an artifact list, the exclusion list
\* stays empty, an empty placeholder artifact-config file is created, and
\* the cleaned tensor is saved.
C8_NoModePlaceholder ==
    ( /\ stage = "ica" /\ pc = "done"
      /\ MarkingMode(args) = "none"
      /\ IsTruncated(IcaInput) )
    => /\ status = "ok"
       /\ ica.exclude = <<>>
       /\ fs.outfile.exists
       /\ fs.outfile.content.removed = <<>>
       /\ fs.config.exists
       /\ fs.config.content = <<>>

\* an integer literal: decimal digits, optionally signed, optionally
\* surrounded by whitespace
IsIntegerToken(tok) ==
    LET body == Strip(tok)
        digits == IF body # <<>> /\ body[1] \in {"-", "+"}
                  THEN Tail(body) ELSE body
    IN digits # <<>> /\ \A k \in 1..Len(digits) : digits[k] \in DecimalChars

\* C9: an artifact list with a token that is not an integer makes the stage
\* fail with ValueError before the table is read, before the ICA is
\* fitted and before a plot or an output file is written.
C9_MalformedListFailsEarly ==
    ( /\ stage = "ica" /\ pc = "done"
      /\ args.artifacts.type = "str"
      /\ \E k \in 1..Len(Split(args.artifacts.text)) :
            ~IsIntegerToken(Split(args.artifacts.text)[k]) )
    => /\ status = "ValueError"
       /\ df = <<>>
       /\ ica.fits = 0
       /\ ~fs.plotfile.exists
       /\ ~fs.outfile.exists

(***************************************************************************)
(* Properties of the re-referencing stage (SpecDenoise).                   *)
(***************************************************************************)
DenoiseInput == fs.infile.content
DenoiseOutput == fs.outfile.content

RECURSIVE SumOver(_, _)
SumOver(f, S) ==
    IF S = {} THEN 0
    ELSE LET x == CHOOSE y \in S : TRUE IN f[x] + SumOver(f, S \ {x})

\* the sum over the channels of tensor d at epoch e, time sample t
ChannelSum(d, e, t) ==
    SumOver([c \in 1..Len(d[e]) |-> d[e][c][t]], 1..Len(d[e]))

\* C10: after the stage, at every epoch and time sample the mean over the
\* channels of the output is zero, each output value being the input value
\* minus the cross-channel mean; the output carries an applied average
\* reference projection and is saved at the output path.
C10_ZeroChannelMean ==
    (stage = "denoise" /\ status = "ok") =>
        LET in == DenoiseInput.data
            out == DenoiseOutput.data
            n == Len(DenoiseInput.ch_names)
        IN /\ fs.outfile.exists
           /\ DenoiseOutput.denom = n
           /\ Len(out) = Len(in)
           /\ \A e \in 1..Len(out) :
                 /\ Len(out[e]) = n
                 /\ \A c \in 1..n :
                       /\ Len(out[e][c]) = Len(in[e][c])
                       /\ \A t \in 1..Len(out[e][c]) :
                             /\ ChannelSum(out, e, t) = 0
                             /\ out[e][c][t] =
                                   n * in[e][c][t] - ChannelSum(in, e, t)
           /\ \E k \in 1..Len(DenoiseOutput.projs) :
                 /\ DenoiseOutput.projs[k].kind = "average"
                 /\ DenoiseOutput.projs[k].active

\* two channels whose mean was not zero, and an output that is not zero
C10_Witness ==
    /\ stage = "denoise" /\ status = "ok"
    /\ Len(DenoiseInput.ch_names) = 2
    /\ \E e \in 1..Len(DenoiseInput.data) :
          \E t \in 1..Len(DenoiseInput.data[e][1]) :
              /\ ChannelSum(DenoiseInput.data, e, t) # 0
              /\ DenoiseOutput.data[e][1][t] # 0

(***************************************************************************)
(* Properties of the feature extraction stage (SpecFeatures).              *)
(***************************************************************************)
FeaturesInput == fs.infile.content

FeaturesExtracted == stage = "features" /\ pc \in {"save", "done"}
                     /\ status \in {"running", "ok"}

\* the selected families among the four known ones
SelectedFamilies == Range(args.features.items) \cap Families

\* the feature names a family stands for
FamilyNames(family) ==
    CASE family = "statistical" ->
           {"mean", "std", "max", "min", "kurtosis", "skewness"}
      [] family = "wavelet" ->
           {"wavelet_" \o j \o "_" \o fn :
               j \in {"0", "1", "2", "3", "4", "5"}, fn \in {"mean", "std"}}
      [] family = "psd" ->
           {band \o "_power" :
               band \in {"delta", "theta", "alpha", "beta", "gamma"}}
      [] family = "entropy" -> {"sample_entropy", "approx_entropy"}

ExpectedKeys(channel_names, families) ==
    {ch \o "_" \o name :
        ch \in Range(channel_names),
        name \in UNION {FamilyNames(f) : f \in families}}

\* C11: the key set of the feature mapping is exactly the union, over the
\* channels and over the selected families, of the keys of that family;
\* the selection {entropy} gives exactly the two entropy keys per channel.
C11_KeySetMatchesSelection ==
    FeaturesExtracted =>
        /\ DOMAIN features = ExpectedKeys(epochs.ch_names, SelectedFamilies)
        /\ SelectedFamilies = {"entropy"} =>
              DOMAIN features =
                  {ch \o "_" \o name :
                      ch \in Range(epochs.ch_names),
                      name \in {"sample_entropy", "approx_entropy"}}

\* only the entropy family was selected, for a tensor of two channels
C11_Witness ==
    /\ stage = "features" /\ status = "ok"
    /\ args.features.items = <<"entropy">>
    /\ Len(epochs.ch_names) = 2
    /\ Cardinality(DOMAIN fs.outfile.content) = 4

\* C12: every value of the feature mapping is a one-dimensional array with
\* one entry per epoch of the source tensor; the 5-channel, 1-epoch tensor
\* with the selection {psd} gives 25 keys, each of length 1.
C12_OneValuePerEpoch ==
    FeaturesExtracted =>
        /\ \A key \in DOMAIN features :
              /\ DOMAIN features[key] = 1..Len(FeaturesInput.data)
              /\ \A e \in DOMAIN features[key] :
                    features[key][e].x \in Range(FeaturesInput.data[e])
        /\ (FeaturesInput = ScenarioEpochs
            /\ args.features.items = <<"psd">>) =>
              /\ Cardinality(DOMAIN features) = 25
              /\ \A key \in DOMAIN features : Len(features[key]) = 1

\* a tensor of two epochs went through, every feature having two entries
C12_Witness ==
    /\ stage = "features" /\ status = "ok"
    /\ Len(FeaturesInput.data) = 2
    /\ \E key \in DOMAIN fs.outfile.content :
          Len(fs.outfile.content[key]) = 2

(***************************************************************************)
(* Properties of the ingestion stage (SpecLoad).                           *)
(***************************************************************************)
LoadInput == fs.infile.content
LoadOutput == fs.outfile.content

\* main ran on an existing file with well-typed arguments
LoadRan == /\ stage = "load" /\ pc = "done"
           /\ LoadEntryError(args, fs) = "none"

\* a decimal literal, optionally signed and surrounded by whitespace
IsDecimalToken(tok) ==
    LET body == Strip(tok)
        rest == IF body # <<>> /\ body[1] \in {"-", "+"}
                THEN Tail(body) ELSE body
    IN /\ \E k \in 1..Len(rest) : rest[k] \in DecimalChars
       /\ \A k \in 1..Len(rest) : rest[k] \in DecimalChars \cup {"."}
       /\ Cardinality({k \in 1..Len(rest) : rest[k] = "."}) <= 1

\* the line as the file has it: fewer than seven fields, or an id, event,
\* code, size or sample that is not a number
Malformed(line) ==
    \/ Len(line) < 7
    \/ \E k \in {1, 2, 5, 6} : ~IsIntegerToken(line[k])
    \/ \E k \in 1..Len(Split(line[7])) : ~IsDecimalToken(Split(line[7])[k])

ParsingErrors == {"ValueError", "IndexError"}

\* C17: without mock mode, either every line of the input gives exactly one
\* row of the output, in input order, or the stage fails with a parsing
\* error and writes no output; a line with fewer than seven fields or with
\* an id, event, code, size or sample that is not a number makes it fail.
C17_NoRowSilentlyDropped ==
    (LoadRan /\ ~args.mock) =>
        /\ \/ /\ status = "ok"
              /\ Len(LoadOutput) = Len(LoadInput)
              /\ \A i \in 1..Len(LoadInput) :
                    LoadOutput[i].channel = LoadInput[i][4]
           \/ /\ status \in ParsingErrors
              /\ ~fs.outfile.exists
        /\ (\E i \in 1..Len(LoadInput) : Malformed(LoadInput[i])) =>
              /\ status \in ParsingErrors
              /\ ~fs.outfile.exists

\* the integer a well-formed integer field stands for
FieldValue(field) == ParseInt(field).value

\* C18: every sample of the output is the parsed sample times 0.125; id,
\* event, channel, code and size are those of the input line and there is
\* no device column; in mock mode the output is the first min(n, 10000)
\* rows of the input in input order, otherwise all n rows.
C18_ConvertedAndMockPrefix ==
    (stage = "load" /\ status = "ok"
     /\ \A i \in 1..Len(LoadInput) : ~Malformed(LoadInput[i])) =>
        /\ Len(LoadOutput) =
              IF args.mock /\ MOCK_SIZE < Len(LoadInput)
              THEN MOCK_SIZE ELSE Len(LoadInput)
        /\ \A i \in 1..Len(LoadOutput) :
              LET line == LoadInput[i]
                  row == LoadOutput[i]
                  samples == ParseSignal(line[7])
              IN /\ DOMAIN row =
                      {"id", "event", "channel", "code", "size", "signal"}
                 /\ row.id = FieldValue(line[1])
                 /\ row.event = FieldValue(line[2])
                 /\ row.channel = line[4]
                 /\ row.code = FieldValue(line[5])
                 /\ row.size = FieldValue(line[6])
                 /\ Len(row.signal) = Len(samples)
                 /\ \A k \in 1..Len(samples) :
                       8 * row.signal[k].num * samples[k].value.den
                         = row.signal[k].den * samples[k].value.num

\* a file longer than the mock size was cut to it, the samples converted
C18_Witness ==
    /\ stage = "load" /\ status = "ok"
    /\ args.mock
    /\ Len(LoadInput) > MOCK_SIZE
    /\ Len(LoadOutput) = MOCK_SIZE
    /\ LoadOutput[MOCK_SIZE].signal = <<[num |-> 1, den |-> 8]>>

(***************************************************************************)
(* Properties of the bandpass stage (SpecBandpass).                        *)
(***************************************************************************)
BandpassInput == fs.infile.content

\* lowcut / (0.5 * size) or highcut / (0.5 * size) is not a number strictly
\* between 0 and 1
CutoffOutOfRange(size) ==
    ~(/\ size > 0
      /\ 0 < 2 * lowcut /\ 2 * lowcut < size
      /\ 0 < 2 * highcut /\ 2 * highcut < size)

\* C19: when a record's size puts a normalized cutoff outside (0, 1), as
\* every size up to 120 does, the stage ends with ValueError, its process
\* exits with code 1, and no output table is written.
C19_CutoffErrorRecoverable ==
    ( /\ stage = "bandpass" /\ exit_code # <<>>
      /\ BandpassEntryError(args, fs) = "none"
      /\ \A i \in 1..Len(BandpassInput) : "size" \in DOMAIN BandpassInput[i]
      /\ \E i \in 1..Len(BandpassInput) :
            CutoffOutOfRange(BandpassInput[i].size) )
    => /\ status = "ValueError"
       /\ exit_code = <<1>>
       /\ ~fs.outfile.exists

(***************************************************************************)
(* Properties of every stage (SpecPipeline).                               *)
(***************************************************************************)
\* the exceptions of a validation or IO error: a wrong parameter type, a
\* missing file or directory, a value or a line that cannot be parsed
ValidationErrors ==
    {"TypeError", "FileNotFoundError", "ValueError", "IndexError"}

\* C13: the process of every stage exits with 0 when main returns, with 1
\* on every validation or IO error, with 99 on nothing but an internal
\* error; and an exception class has the same exit code in every stage.
C13_ThreeTierExitCodes ==
    exit_code # <<>> =>
        /\ status = "ok" <=> exit_code = <<0>>
        /\ status \in ValidationErrors <=> exit_code = <<1>>
        /\ \A s \in Stages : ExitCode(s, status) = ExitCode(stage, status)

\* the arguments pass the parameter checks of the stage
PassesParameterChecks ==
    /\ args.infile = "str" /\ args.outfile = "str"
    /\ (stage = "ica" /\ args.artifacts.type = "str") =>
          ArtifactsValid(args.artifacts.text)

\* nothing was read and nothing computed
NothingRead ==
    /\ df = <<>> /\ epochs = NoEpochs /\ features = <<>>
    /\ ica = NoIca /\ epochs_data = <<>>

\* no file was written
NothingWritten ==
    /\ ~fs.outfile.exists /\ ~fs.plotfile.exists /\ ~fs.config.exists

\* C14: in every stage, main called with the path of a file that does not
\* exist raises FileNotFoundError, and no output file is created.
C14_MissingInputFileNotFound ==
    (pc = "done" /\ PassesParameterChecks /\ ~fs.infile.exists) =>
        /\ status = "FileNotFoundError"
        /\ NothingRead
        /\ NothingWritten

\* the ingestion stage with neither the input file nor the output directory
C14_Witness ==
    /\ stage = "load" /\ pc = "done"
    /\ ~fs.infile.exists /\ ~fs.outdir
    /\ status = "FileNotFoundError"

\* C15: in every stage a missing output directory is a fatal error raised
\* before the input is read and before anything is computed.
C15_OutputDirectoryCheckedFirst ==
    (pc = "done" /\ PassesParameterChecks /\ fs.infile.exists /\ ~fs.outdir)
    => /\ status # "ok"
       /\ NothingRead

\* C16: in every stage a non-string infile or outfile raises TypeError,
\* whether or not the files exist, and nothing is read, computed or
\* written.
C16_TypeChecksFirst ==
    (pc = "done" /\ (args.infile # "str" \/ args.outfile # "str")) =>
        /\ status = "TypeError"
        /\ NothingRead
        /\ NothingWritten

\* the feature stage called with a non-string infile, no file being there
C16_Witness ==
    /\ stage = "features" /\ pc = "done"
    /\ args.infile = "int" /\ ~fs.infile.exists /\ ~fs.outdir
    /\ status = "TypeError"

\* C20: no step of any stage changes the file the stage reads, whatever
\* the infile and outfile arguments are: the file stays as it is while the
\* two arguments name different paths, and no result is ever written to
\* the path of the input.
C20_InputNeverModified ==
    [][ /\ fs'.infile.exists = fs.infile.exists
        /\ args.outpath # "infile" => fs'.infile = fs.infile
        /\ args.outpath = "infile" =>
              ~(pc \in {"write", "save"} /\ status' = "ok") ]_vars

(***************************************************************************)
(* Failure, lifecycle and event layout of the ICA stage (SpecIca).         *)
(***************************************************************************)
\* main raised
StageFailed == pc = "done" /\ status # "ok"

\* C21: when a stage fails, none of its output files has been created or
\* modified: a failing run leaves no file behind that a later stage could
\* take for a result.
C21_AtomicStageFailure ==
    StageFailed =>
        /\ ~fs.outfile.exists
        /\ ~fs.plotfile.exists

(***************************************************************************)
(* Rejected inputs of the feature extraction stage (SpecFeatures).         *)
(***************************************************************************)
\* the selection names a family that is none of the four known ones
UnknownFamilySelected ==
    /\ stage = "features"
    /\ FeaturesEntryError(args, fs) = "none"
    /\ ~(Range(args.features.items) \subseteq Families)

\* C22: extract_features raises ValueError whenever the selection contains
\* a string that is not statistical, wavelet, psd or entropy; the unknown
\* name is not silently ignored.
C22_UnknownFamilyRejected ==
    (UnknownFamilySelected /\ pc \in {"save", "done"}) =>
        /\ status = "ValueError"
        /\ features = <<>>

\* the tensor read has a time axis of length zero, and a spectral, wavelet
\* or entropy routine is selected
EmptySignalReachesRoutines ==
    /\ stage = "features"
    /\ FeaturesEntryError(args, fs) = "none"
    /\ FeaturesInput.data # <<>>
    /\ \A e \in 1..Len(FeaturesInput.data) :
          \A c \in 1..Len(FeaturesInput.data[e]) :
              FeaturesInput.data[e][c] = <<>>
    /\ Range(args.features.items) \cap {"psd", "wavelet", "entropy"} # {}

\* C23: a tensor whose time axis has length zero ends the stage in a
\* reported validation error (exit status 1): no feature mapping is
\* returned or saved for it.
C23_EmptySignalRejected ==
    (EmptySignalReachesRoutines /\ pc \in {"save", "done"}) =>
        /\ status \in Recognized(stage)
        /\ features = <<>>
        /\ ~fs.outfile.exists
        /\ exit_code # <<>> => exit_code = <<1>>

(***************************************************************************)
(* Event layout of the ICA stage (SpecIca).                                *)
(***************************************************************************)
\* the events array of ica.py:182-187 exists
EventsLaidOut == stage = "ica" /\ events_array # <<>>

\* C24: the events stand in order of first appearance, the i-th of them
\* (i = 0, 1, ...) has the onset i * target_length, the onsets are strictly
\* increasing, and the windows [onset, onset + target_length) of two
\* events never overlap.
C24_EventOffsets ==
    EventsLaidOut =>
        /\ Len(events_array) = Cardinality(DistinctEvents(IcaInput))
        /\ Len(events) = Len(events_array)
        /\ \A i, j \in 1..Len(events) :
              i < j => FirstIndex(Column(IcaInput, "event"), events[i])
                         < FirstIndex(Column(IcaInput, "event"), events[j])
        /\ \A i \in 1..Len(events_array) :
              events_array[i][1] = (i - 1) * IcaInput[1].size
        /\ \A i, j \in 1..Len(events_array) :
              i < j =>
                  /\ events_array[i][1] < events_array[j][1]
                  /\ events_array[i][1] + target_length <= events_array[j][1]

\* two events were laid out, the second of them listed first in the table
\* after a row of the first
C24_Witness ==
    /\ EventsLaidOut /\ status = "ok"
    /\ Len(events_array) = 2
    /\ events_array[2][1] = IcaInput[1].size
    /\ Len(IcaInput) = 3
    /\ IcaInput[1].event # IcaInput[2].event
    /\ IcaInput[3].event = IcaInput[1].event

\* the class ids in use
ClassIds == {event_ids[c] : c \in DOMAIN event_ids}

\* C25: the class ids are compact and zero-based: a table with k distinct
\* event codes uses exactly the ids 0 .. k-1, distinct codes have distinct
\* ids, and every event carries the id of its own code, also when several
\* events share a code.
C25_CompactClassIds ==
    EventsLaidOut =>
        /\ DOMAIN event_ids = Range(event_codes)
        /\ ClassIds = 0..(Cardinality(Range(event_codes)) - 1)
        /\ \A c1, c2 \in DOMAIN event_ids :
              c1 # c2 => event_ids[c1] # event_ids[c2]
        /\ \A e \in 1..Len(events_array) :
              events_array[e][3] = event_ids[event_codes[e]]

(***************************************************************************)
(* Lifecycle of the ICA object (SpecIca).                                  *)
(***************************************************************************)
\* what holds of the ICA object at every point of the stage
IcaLifecycleState ==
    stage = "ica" =>
        /\ ica.fits <= 1 /\ ica.applied <= 1
        /\ ica.fits = 1 => epochs_data # <<>> /\ events_array # <<>>
        /\ ica.applied = 1 => ica.fits = 1
        /\ ica.exclude # <<>> => ica.fits = 1
        /\ ica.applied = 1 =>
              /\ epochs_clean.source = epochs_data
              /\ epochs_clean.removed = ica.exclude
        /\ fs.outfile.exists =>
              /\ ica.applied = 1
              /\ fs.outfile.content = epochs_clean
        /\ status = "ok" =>
              /\ ica.fits = 1 /\ ica.applied = 1
              /\ fs.outfile.exists

\* what holds of every step of the stage
IcaLifecycleStep ==
    stage = "ica" =>
        /\ ica'.fits # ica.fits => pc = "fit" /\ ica.applied = 0
        /\ ica'.exclude # ica.exclude =>
              /\ ica.fits = 1 /\ ica.applied = 0
              /\ pc \in {"mark", "inspect"} /\ pc' = "apply"
        /\ pc \in {"apply", "save", "done"} =>
              pc' \in {"apply", "save", "done"} \ {"apply"}
        /\ ica'.applied # ica.applied => pc = "apply" /\ pc' = "save"
        /\ epochs_data # <<>> => epochs_data' = epochs_data

\* C26: in the ICA stage the epochs are assembled, then the ICA is fit
\* exactly once, then the exclusion set is set at most once, then the ICA
\* is applied exactly once to a copy of the epochs, then the cleaned
\* tensor is saved; the exclusion set never changes after apply, apply
\* never precedes fit, and apply leaves the assembled tensor as it was.
C26_IcaLifecycle == [] IcaLifecycleState /\ [][IcaLifecycleStep]_vars

\* a run that excluded components and saved the cleaned tensor
C26_Witness ==
    /\ stage = "ica" /\ status = "ok"
    /\ ica.fits = 1 /\ ica.applied = 1
    /\ ica.exclude # <<>>
    /\ fs.outfile.content.removed = ica.exclude
    /\ fs.outfile.content.source = epochs_data

(***************************************************************************)
(* Interactive inspection of the components (SpecIca).                     *)
(***************************************************************************)
\* the components for which y or Y was typed
MarkedComponents ==
    {prompted[k].index :
        k \in {m \in 1..Len(prompted) :
                  prompted[m].response \in {<<"y">>, <<"Y">>}}}

\* C27: with inspection requested every component 0 .. n_components-1 is
\* prompted exactly once, in ascending order, and the exclusion set is
\* exactly the components answered with y or Y (every other answer, the
\* empty one included, rejects); without inspection nothing is prompted.
C27_InteractiveInspection ==
    stage = "ica" =>
        /\ \A k \in 1..Len(prompted) : prompted[k].index = k - 1
        /\ Len(prompted) <= ica.n_components
        /\ ~args.inspection => prompted = <<>>
        /\ Range(identified_artifacts) = MarkedComponents
        /\ (args.inspection /\ (pc \in {"apply", "save"} \/ status = "ok")) =>
              /\ {prompted[k].index : k \in 1..Len(prompted)}
                    = 0..(ica.n_components - 1)
              /\ Len(prompted) = ica.n_components
              /\ Range(ica.exclude) = MarkedComponents
              /\ Len(ica.exclude) = Cardinality(MarkedComponents)

\* both components were prompted; Y marked the first, the empty answer
\* rejected the second
C27_Witness ==
    /\ stage = "ica" /\ status = "ok" /\ args.inspection
    /\ Len(prompted) = 2
    /\ prompted[1].response = <<"Y">>
    /\ prompted[2].response = <<>>
    /\ ica.exclude = <<0>>

(***************************************************************************)
(* The truncation stage run a second time (SpecRetruncate).                *)
(***************************************************************************)
\* C28: the truncation stage, run on the table a truncation run wrote,
\* succeeds and writes a table identical to its input: the same rows in
\* the same order, the same signals, the same sizes.
C28_TruncationIdempotent ==
    (stage = "truncate" /\ pc = "done") =>
        /\ status = "ok"
        /\ fs.outfile.exists
        /\ fs.outfile.content = fs.infile.content

\* the second run of the scenario table, and of a table whose first run
\* had shortened a signal and left another one shorter than the target
C28_Witness ==
    /\ stage = "truncate" /\ status = "ok"
    /\ fs.outfile.content = fs.infile.content
    /\ \/ fs.infile.content = TruncatedTable(ScenarioTable)
       \/ /\ Len(fs.infile.content) = 2
          /\ fs.infile.content[1].size = 2
          /\ Len(fs.infile.content[1].signal) = 2
          /\ Len(fs.infile.content[2].signal) = 1

(***************************************************************************)
(* Band power (SpecFeatures).                                              *)
(***************************************************************************)
\* the band edges in Hz, doubled: delta is 0.5 .. 4 Hz
BandEdges2 ==
    [delta |-> <<1, 8>>, theta |-> <<8, 16>>, alpha |-> <<16, 26>>,
     beta |-> <<26, 60>>, gamma |-> <<60, 90>>]

\* the frequency bins summed into the band power of a channel in an epoch
PowerBins(channel, band, e) ==
    features[channel \o "_" \o band \o "_power"][e].bins

\* bin k of a segment of seg samples lies at k * sfreq / seg Hz
InBand(k, seg, rate, band) ==
    /\ BandEdges2[band][1] * seg * rate.den <= 2 * k * rate.num
    /\ 2 * k * rate.num <= BandEdges2[band][2] * seg * rate.den

\* C29: a frequency bin f is summed into a band's power iff
\* low <= f <= high; a bin exactly on a shared edge (4, 8, 13, 30 Hz) is
\* counted in both adjacent bands, and a bin below 0.5 Hz or above 45 Hz
\* in no band.
C29_ClosedBands ==
    (FeaturesExtracted /\ "psd" \in SelectedFamilies) =>
        /\ \A c \in 1..Len(epochs.ch_names), e \in 1..Len(epochs.data) :
              LET n_times == Len(epochs.data[e][c])
                  seg == IF n_times < 248 THEN n_times ELSE 248
              IN \A band \in DOMAIN BandEdges2 :
                    PowerBins(epochs.ch_names[c], band, e) =
                        {k \in 0..(seg \div 2) :
                            InBand(k, seg, epochs.sfreq, band)}
        /\ FeaturesInput = BoundaryEpochs =>
              /\ 4 \in PowerBins("O1", "delta", 1)
                       \cap PowerBins("O1", "theta", 1)
              /\ 8 \in PowerBins("O1", "theta", 1)
                       \cap PowerBins("O1", "alpha", 1)
              /\ 13 \in PowerBins("O1", "alpha", 1)
                       \cap PowerBins("O1", "beta", 1)
              /\ 30 \in PowerBins("O1", "beta", 1)
                       \cap PowerBins("O1", "gamma", 1)
              /\ \A k \in {0} \cup 46..64 : \A band \in DOMAIN BandEdges2 :
                    k \notin PowerBins("O1", band, 1)
              /\ \A k \in 1..45 : \E band \in DOMAIN BandEdges2 :
                    k \in PowerBins("O1", band, 1)

\* the tensor whose frequency bins fall on the band edges went through
C29_Witness ==
    /\ stage = "features" /\ status = "ok"
    /\ FeaturesInput = BoundaryEpochs
    /\ fs.outfile.content["O1_delta_power"][1].bins = 1..4
    /\ fs.outfile.content["O1_theta_power"][1].bins = 4..8

(***************************************************************************)
(* Duplicate rows in the epoch assembly (SpecIca).                         *)
(***************************************************************************)
\* the table has two rows for one (event, channel) pair
HasDuplicateRows(table) ==
    \E i, j \in 1..Len(table) :
        /\ i < j
        /\ table[i].event = table[j].event
        /\ table[i].channel = table[j].channel

\* the first row of an event, and of an (event, channel) pair
FirstRowOfEvent(table, event) ==
    table[FirstIndex(Column(table, "event"), event)]

FirstRowOfPair(table, event, channel) ==
    table[FirstIndex([i \in 1..Len(table) |->
                         <<table[i].event, table[i].channel>>],
                     <<event, channel>>)]

\* C30: the tensor holds, for every (event, channel) pair with rows, the
\* signal of the first such row in table order; the code of an event is
\* that of the event's first row; and the tensor has one epoch per
\* distinct event and one position per distinct channel, however many
\* rows are duplicates.
C30_FirstDuplicateWins ==
    Assembled =>
        /\ Len(epoch_data) = Cardinality(DistinctEvents(IcaInput))
        /\ \A e \in 1..Len(epoch_data) :
              /\ Len(epoch_data[e]) = Cardinality(DistinctChannels(IcaInput))
              /\ event_codes[e] = FirstRowOfEvent(IcaInput, events[e]).code
              /\ \A c \in 1..Len(channels) :
                    HasRow(IcaInput, events[e], channels[c]) =>
                        epoch_data[e][c] =
                            FirstRowOfPair(IcaInput, events[e],
                                           channels[c]).signal
        /\ IsTruncated(IcaInput) =>
              /\ epochs_data = epoch_data
              /\ \A e \in 1..Len(epochs_data) : \A c \in 1..Len(channels) :
                    Len(epochs_data[e][c]) = IcaInput[1].size

\* a truncated table whose first two rows are the same (event, channel)
\* pair with different signals and codes went through
C30_Witness ==
    /\ TensorBuilt /\ status = "ok"
    /\ IsTruncated(IcaInput) /\ HasDuplicateRows(IcaInput)
    /\ Len(IcaInput) = 3
    /\ IcaInput[1].event = IcaInput[2].event
    /\ IcaInput[1].channel = IcaInput[2].channel
    /\ IcaInput[1].signal # IcaInput[2].signal
    /\ IcaInput[1].code # IcaInput[2].code
    /\ epochs_data[1][1] = IcaInput[1].signal
    /\ event_codes[1] = IcaInput[1].code

=============================================================================
